---- MODULE Spec2Model ----
(***************************************************************************)
(* agentexec: priority queue, worker loop, Task.execute lifecycle, result  *)
(* rendezvous and worker-pool shutdown, modelled as a state machine.       *)
(*                                                                         *)
(* Spec      the pool of worker/pool.py with Task.execute of core/task.py  *)
(* SpecQueue producers and consumers of the queue alone                    *)
(* SpecPool  start and shutdown of the pool around working workers         *)
(* SpecCore  the worker of core/worker.py (Worker.run/_process_task)       *)
(* SpecSweep the pool stopped and started again, with cancel_pending       *)
(* SpecActivity the tracker's writes, cancel_pending and count_active      *)
(* SpecReaders  the tracker's list, detail and count_active                *)
(* SpecFilter   list and detail under a metadata filter                    *)
(* SpecRegistry enqueue of registered and unregistered task names          *)
(* SpecWait  get_result beside the pool that executes the awaited task     *)
(* SpecJoin  gather over several results                                   *)
(* SpecWire  the envelope dumped to JSON and hydrated                      *)
(* SpecFanout   a handler that enqueues sub-tasks and gathers their results*)
(* SpecPipeline a pipeline declared, validated and run step by step        *)
(* SpecSpawn    handlers registered before and after the workers are spawned*)
(* SpecStore    sessions that create activities, append rows and read      *)
(* SpecList     the list read page by page                                 *)
(* SpecRun      WorkerPool.run with interrupts, called again when stopped  *)
(* SpecDrain    SpecPool with each worker's loop stepping fairly           *)
(* SpecOutage   the pool at work while the backend fails for some workers  *)
(* SpecProgress a pipeline of any number of steps run as a task            *)
(* SpecCollect  SpecRun with the log collector polling fairly              *)
(* SpecKv       clients of the SQL key-value store, its cleanup, the clock *)
(***************************************************************************)
EXTENDS Integers, Sequences, FiniteSets, TLC

\* ------------------------------------------------------------------ bounds
MaxTasks == 2
MaxQueueTasks == 3
MaxPoolTasks == 2
MaxCoreTasks == 2
MaxReports == 1
MaxTime == 1
MaxActivities == 2
MaxSweepTasks == 1
MaxRows == 2
MaxRegistryTasks == 2
MaxFilterActivities == 2
MaxWaitTasks == 1
MaxJoin == 2
MaxFanoutParents == 1
MaxSleeps == 1
MaxArity == 2
MaxStoreIds == 2
MaxListed == 3
MaxRuns == 2
MaxSteps == 50

\* ------------------------------------------------------- program constants
\* The modelled pipeline has two steps.
PipelineSteps == 2
\* CONF.result_ttl, in clock ticks.
result_ttl == 1

Workers == {"w1", "w2"}
WorkerOrder == <<"w1", "w2">>
Backends == {"list", "sql"}

HIGH == "high"
LOW == "low"
Priorities == {HIGH, LOW}

QUEUED == "queued"
RUNNING == "running"
COMPLETE == "complete"
ERROR == "error"
CANCELED == "canceled"

\* Registered task names; the name decides the kind of handler.
TaskNames == {"plain", "progress", "pipeline"}
\* WorkerContext.tasks: the names the pool has registered.
tasks == TaskNames \cup {"fanout"}

\* What a handler can return: a record of its result type, or None.
Values == {"v1"}
None == "None"
\* What a handler can raise (subclasses of Exception).
ExcTypes == {"ValueError", "KeyError"}

NoTask == [agent_id |-> 0, task_name |-> "-"]
NoResult == [value |-> None, expires_at |-> 0]
\* ttl_seconds=None, and the NULL of the expires_at column.
NoTtl == -1
NoExpiry == -1
\* The keys, values and TTLs that clients of the key-value store use.
KvKeys == {1, 2}
KvValues == {"v1", "v2"}
KvTtls == {NoTtl, 0, 1}
NoWrite == [value |-> None, ttl_seconds |-> NoTtl, at |-> 0]
NoKvCall == [op |-> "-", key |-> 0, ret |-> None, at |-> 0]
NoKv == [set_by |-> [key \in KvKeys |-> NoWrite], call |-> NoKvCall]
NullPct == -1

\* ------------------------------------------------------------ configuration
activity_message_create == "Waiting to start."
activity_message_started == "Task started."
activity_message_complete == "Completed successfully."
activity_message_error == "An error occurred during execution."

\* Templates that contain the replacement field {error}.
TemplatesWithErrorField == {"Error: {error}"}

\* str.format(error=e): the field is substituted where the template has it.
FormatError(template, e) ==
    IF template \in TemplatesWithErrorField
    THEN [text |-> template, error |-> e]
    ELSE [text |-> template, error |-> "-"]

PlainMessage(text) == [text |-> text, error |-> "-"]

VARIABLES
    backend,    \* which state backend holds the queue: "list" or "sql"
    queue,      \* the queue's items, left to right (list) or by ascending id (sql)
    nextId,     \* the next agent-id to mint
    producer,   \* the enqueue in progress: NoTask or the task whose push is pending
    pprio,      \* the priority of the enqueue in progress
    logs,       \* agent-id -> its activity log rows in insertion order
    results,    \* agent-id -> the entry under result:<agent-id>
    now,        \* the clock
    flag,       \* the pool's shutdown flag
    ppc,        \* the pool: "new", "running", "joining", "stopped"
    pjoin,      \* shutdown: index of the process being joined
    wpc,        \* worker -> its position
    wtask,      \* worker -> the task it holds
    wstep,      \* worker -> progress rows its handler has written
    outcome,    \* agent-id -> what its handler did and what execute returned
    hist,       \* the queue's events in order: enqueues and pops
    ties,       \* agent-id -> the rows that share created_at with the row before
    last,       \* the latest call of the tracker's API: what it saw and returned
    meta,       \* agent-id -> the metadata of its activity header
    direct,     \* agent-id -> the bytes under the key that get_result polls
    waiter,     \* the client in get_result or gather
    wire,       \* the envelope under conversion: context, JSON text, hydrated task
    fan,        \* worker -> the sub-tasks its handler enqueued and its gather
    pipe,       \* a Pipeline: its declared steps and the run of them
    reg,        \* the pool's task registry and the copy each spawned worker holds
    header,     \* agent-id -> its row of the activity table: absent, pending in a
                \* session's open transaction, or committed
    paging,     \* a client that reads the list page by page
    runner,     \* WorkerPool.run: its position, and where an interrupt reached it
    cleaned,    \* worker -> how often its process ran the loop's finally block
    processes,  \* the pool's list of process handles
    num_steps,  \* how many steps the pipeline registered as "pipeline" has
    kv          \* the key-value store's clients: the last write of each key, the last call

\* What the queue, the workers and the pool never write.
svars == <<paging, runner, cleaned, processes, num_steps, kv>>
tvars == <<header, svars>>
uvars == <<reg, tvars>>
zvars == <<pipe, uvars>>
yvars == <<fan, zvars>>
xvars == <<meta, direct, waiter, wire, yvars>>
avars == <<ties, last, xvars>>
\* The same without the cleanup count, without the handles, without both.
cvars == <<ties, last, meta, direct, waiter, wire, fan, pipe, reg, header, paging, runner,
          num_steps, kv>>
bvars == <<cvars, processes>>
dvars == <<cvars, cleaned>>

vars == <<avars, backend, queue, nextId, producer, pprio, logs, results, now, flag, ppc,
          pjoin, wpc, wtask, wstep, outcome, hist>>

Max2(a, b) == IF a > b THEN a ELSE b
Min2(a, b) == IF a < b THEN a ELSE b
\* The sub-tasks that a fan-out step enqueues.
Children == 2

Ids == 1..Max2(Max2(Max2(Max2(MaxTasks, MaxPoolTasks), Max2(MaxQueueTasks, MaxCoreTasks)),
                    MaxActivities),
               MaxFanoutParents * (Children + 1))

\* Metadata values as JSON holds them: a string or a number, with its text.
Absent == [type |-> "absent", text |-> ""]
MetaValues == {[type |-> "str", text |-> "1"], [type |-> "str", text |-> "2"],
               [type |-> "int", text |-> "1"]}
Keys == {"org", "team"}
\* A metadata map or a metadata_filter: Absent at the keys it does not have.
\* The map without keys stands for metadata NULL and {}, for the filter None and {}.
Maps == [Keys -> MetaValues \cup {Absent}]
NoMap == [k \in Keys |-> Absent]
Dialects == {"postgresql", "sqlite"}

\* Bytes in the key-value store: how they were encoded, and of what.
NoData == [enc |-> "none", class |-> "-", value |-> None]
NoValue == [kind |-> "none", types |-> <<>>]
NoPipeline == [steps |-> <<>>, pc |-> "-", i |-> 0, carry |-> NoValue, calls |-> <<>>,
               result |-> NoValue]
NoPaging == [pc |-> "-", activities |-> <<>>, page_size |-> 0, page |-> 0, total |-> 0,
             items |-> <<>>]
NoRun == [pc |-> "new", interrupted |-> "-", runs |-> 0, log_task |-> "none"]
NoRegistry == [decorated |-> {}, tasks |-> {}, spawned |-> FALSE, before |-> {},
               worker |-> [w \in Workers |-> {}],
               found |-> [w \in Workers |-> [task_name |-> "-", ret |-> "-"]]]
NoFan == [kids |-> <<>>, got |-> <<>>, waited |-> 0, polled |-> FALSE, ret |-> "-"]
NoWaiter == [op |-> "-", ids |-> <<>>, got |-> <<>>, start |-> 0, timeout |-> 0,
             polled |-> FALSE, ret |-> "-"]
NoContext == [class |-> "-", message |-> "-", extra |-> "-"]
NoEnvelope == [task_name |-> "-", context |-> NoContext, agent_id |-> 0]
NoJson == [task_name |-> "-", context |-> NoContext, agent_id |-> ""]
NoWire == [stage |-> "none", e |-> NoEnvelope, json |-> NoJson, task |-> NoEnvelope]

NoCall == [op |-> "-", value |-> 0, status |-> "-", arg |-> NoMap, items |-> {}]
NoOutcome == [kind |-> "none", value |-> None, exc |-> "-", returned |-> None, done |-> FALSE]

\* --------------------------------------------------------------- the queue
\* sqlalchemy_backend.rpush / redis RPUSH: high priority.
rpush(b, q, env) ==
    IF b = "sql" THEN Append(q, [env |-> env, priority |-> 1])
    ELSE Append(q, [env |-> env, priority |-> 0])

\* sqlalchemy_backend.lpush / redis LPUSH: low priority.
lpush(b, q, env) ==
    IF b = "sql" THEN Append(q, [env |-> env, priority |-> 0])
    ELSE <<[env |-> env, priority |-> 0]>> \o q

\* enqueue with the two pushes exchanged.
redis_push_swapped(priority, b, q, env) ==
    IF priority = HIGH THEN lpush(b, q, env) ELSE rpush(b, q, env)

\* The push that enqueue selects for a priority.
redis_push(priority, b, q, env) ==
    IF priority = HIGH THEN rpush(b, q, env) ELSE lpush(b, q, env)

\* The position brpop takes from a non-empty queue: the right end of the list;
\* ORDER BY priority DESC, id ASC LIMIT 1 of the table.
brpop_index(b, q) ==
    IF b = "sql"
    THEN CHOOSE i \in 1..Len(q) :
            \A j \in 1..Len(q) :
                \/ q[j].priority < q[i].priority
                \/ (q[j].priority = q[i].priority /\ i <= j)
    ELSE Len(q)

RemoveAt(q, i) == SubSeq(q, 1, i - 1) \o SubSeq(q, i + 1, Len(q))

\* A pop that reads the item and leaves it in the queue.
brpop_rest_peek(b, q) == q

\* The queue after brpop has taken its item (DELETE ... RETURNING / BRPOP).
brpop_rest(b, q) == RemoveAt(q, brpop_index(b, q))

\* ------------------------------------------------------------ the activity
Row(status, percentage, message) ==
    [status |-> status, percentage |-> percentage, message |-> message]

\* Activity.append_log: one more row for the agent-id.
append_log(lg, id, status, percentage, message) ==
    [lg EXCEPT ![id] = Append(@, Row(status, percentage, message))]

\* activity.update: the status defaults to RUNNING.
update(lg, id, message, percentage, status) ==
    append_log(lg, id, IF status = None THEN RUNNING ELSE status, percentage, message)

\* A create whose first row is not Queued.
create_unqueued(lg, id) ==
    [lg EXCEPT ![id] = <<Row(RUNNING, 0, PlainMessage(activity_message_create))>>]

\* activity.create: the header and its first row, Queued.
create(lg, id) ==
    [lg EXCEPT ![id] = <<Row(QUEUED, 0, PlainMessage(activity_message_create))>>]

HasActivity(id) == Len(logs[id]) > 0
LatestStatus(id) == logs[id][Len(logs[id])].status
Statuses(id) == [i \in 1..Len(logs[id]) |-> logs[id][i].status]
CountStatus(id, S) == Cardinality({i \in 1..Len(logs[id]) : logs[id][i].status \in S})
Terminal == {COMPLETE, ERROR, CANCELED}

\* -------------------------------------------------------------- the result
\* backend.set(key, value, ttl_seconds): value and expiry are replaced;
\* without a TTL the expiry is NULL.
set(rs, id, value, ttl_seconds) ==
    [rs EXCEPT ![id] = [value |-> value,
                        expires_at |-> IF ttl_seconds = NoTtl THEN NoExpiry
                                       ELSE now + ttl_seconds]]

\* backend.get(key): the value of a row whose expiry is NULL or later than now.
get(rs, id) ==
    IF rs[id].value # None /\ (rs[id].expires_at = NoExpiry \/ rs[id].expires_at > now)
    THEN rs[id].value ELSE None

\* A cleanup that deletes every row that has an expiry.
_cleanup_expired_eager(rs) ==
    [id \in DOMAIN rs |-> IF rs[id].expires_at # NoExpiry THEN NoResult ELSE rs[id]]

\* _cleanup_expired: DELETE ... WHERE expires_at IS NOT NULL AND expires_at < now.
_cleanup_expired(rs) ==
    [id \in DOMAIN rs |->
        IF rs[id].expires_at # NoExpiry /\ rs[id].expires_at < now THEN NoResult ELSE rs[id]]

\* ------------------------------------------------------------------- Init
InitCommon ==
    /\ queue = <<>>
    /\ nextId = 1
    /\ producer = NoTask
    /\ pprio = LOW
    /\ logs = [id \in Ids |-> <<>>]
    /\ results = [id \in Ids |-> NoResult]
    /\ now = 0
    /\ flag = FALSE
    /\ ppc = "new"
    /\ pjoin = 0
    /\ wpc = [w \in Workers |-> "unborn"]
    /\ wtask = [w \in Workers |-> NoTask]
    /\ wstep = [w \in Workers |-> 0]
    /\ outcome = [id \in Ids |-> NoOutcome]
    /\ hist = <<>>
    /\ ties = [id \in Ids |-> {}]
    /\ last = NoCall
    /\ meta = [id \in Ids |-> NoMap]
    /\ direct = [id \in Ids |-> NoData]
    /\ waiter = NoWaiter
    /\ wire = NoWire
    /\ fan = [w \in Workers |-> NoFan]
    /\ pipe = NoPipeline
    /\ reg = NoRegistry
    /\ header = [id \in Ids |-> "absent"]
    /\ paging = NoPaging
    /\ runner = NoRun
    /\ cleaned = [w \in Workers |-> 0]
    /\ processes = <<>>
    /\ kv = NoKv

\* core/queue.py pushes to a Redis list.
Init ==
    /\ backend = "list"
    /\ num_steps = PipelineSteps
    /\ InitCommon

\* Either backend holds the queue.
InitQueue ==
    /\ backend \in Backends
    /\ num_steps = PipelineSteps
    /\ InitCommon

\* A pipeline of any number of steps up to MaxSteps is registered.
InitProgress ==
    /\ backend = "list"
    /\ num_steps \in 1..MaxSteps
    /\ InitCommon

\* --------------------------------------------------------------- producer
Enq(env, priority) ==
    [op |-> "enq", agent_id |-> env.agent_id, priority |-> priority,
     task_name |-> env.task_name]
Popped(env) ==
    [op |-> "pop", agent_id |-> env.agent_id, priority |-> "-",
     task_name |-> env.task_name]

\* enqueue, first half: Task.create mints the agent-id and creates the activity.
EnqueueCreate(max, names, priorities) ==
    /\ producer = NoTask
    /\ nextId <= max
    /\ \E name \in names, priority \in priorities :
        /\ producer' = [agent_id |-> nextId, task_name |-> name]
        /\ pprio' = priority
    /\ logs' = create(logs, nextId)
    /\ nextId' = nextId + 1
    /\ UNCHANGED <<avars, backend, queue, results, now, flag, ppc, pjoin, wpc, wtask, wstep,
                   outcome, hist>>

\* enqueue, second half: the envelope is pushed with the push of its priority.
EnqueuePush ==
    /\ producer # NoTask
    /\ queue' = redis_push(pprio, backend, queue, producer)
    /\ hist' = Append(hist, Enq(producer, pprio))
    /\ producer' = NoTask
    /\ UNCHANGED <<avars, backend, nextId, pprio, logs, results, now, flag, ppc, pjoin, wpc,
                   wtask, wstep, outcome>>

\* The producer dies between Task.create and the push.
EnqueueAbort ==
    /\ producer # NoTask
    /\ producer' = NoTask
    /\ UNCHANGED <<avars, backend, queue, nextId, pprio, logs, results, now, flag, ppc, pjoin,
                   wpc, wtask, wstep, outcome, hist>>

\* ----------------------------------------------------------------- worker
Alive(w) == wpc[w] \in {"loop", "dequeue", "execute", "handler", "stored"}

\* A finally block that does nothing.
finally_block_skipped(c, w) == c

\* Worker._run's finally block: the backend is closed and the session
\* dropped, once for the exit that reaches it.
finally_block(c, w) == [c EXCEPT ![w] = @ + 1]

\* A loop that never reads the flag.
CheckShutdown_blind(w) ==
    /\ wpc[w] = "loop"
    /\ wpc' = [wpc EXCEPT ![w] = "dequeue"]
    /\ UNCHANGED <<avars, backend, queue, nextId, producer, pprio, logs, results, now, flag,
                   ppc, pjoin, wtask, wstep, outcome, hist>>

\* Worker._run: the loop condition reads the shutdown flag; on exit the
\* finally block closes the backend and drops the session.
CheckShutdown(w) ==
    /\ wpc[w] = "loop"
    /\ wpc' = [wpc EXCEPT ![w] = IF flag THEN "exited" ELSE "dequeue"]
    /\ cleaned' = IF flag THEN finally_block(cleaned, w) ELSE cleaned
    /\ UNCHANGED <<bvars, backend, queue, nextId, producer, pprio, logs, results, now, flag,
                   ppc, pjoin, wtask, wstep, outcome, hist>>

\* Worker._dequeue_task: dequeue's blocking pop, then Task.from_serialized
\* with the definition registered under the task name. For a name that is
\* not in the registry the lookup raises KeyError, which ends Worker._run.
\* The SQL backend's brpop deletes the expired rows of the key-value store
\* before it looks for an item.
\* The pop is entered in the history where the history of pops is examined.
Dequeue(w, record) ==
    /\ wpc[w] = "dequeue"
    /\ IF queue = <<>>
       THEN /\ wpc' = [wpc EXCEPT ![w] = "loop"]
            /\ UNCHANGED <<queue, wtask, hist>>
       ELSE /\ queue' = brpop_rest(backend, queue)
            /\ hist' = IF record
                       THEN Append(hist, Popped(queue[brpop_index(backend, queue)].env))
                       ELSE hist
            /\ IF queue[brpop_index(backend, queue)].env.task_name \in tasks
               THEN /\ wtask' = [wtask EXCEPT ![w] = queue[brpop_index(backend, queue)].env]
                    /\ wpc' = [wpc EXCEPT ![w] = "execute"]
               ELSE /\ wtask' = wtask
                    /\ wpc' = [wpc EXCEPT ![w] = "exited"]
    /\ cleaned' = IF wpc'[w] = "exited" THEN finally_block(cleaned, w) ELSE cleaned
    /\ results' = IF backend = "sql" THEN _cleanup_expired(results) ELSE results
    /\ UNCHANGED <<bvars, backend, nextId, producer, pprio, logs, now, flag, ppc,
                   pjoin, wstep, outcome>>

\* The backend becomes unavailable to worker w: the flag read at the top of
\* its loop, or its pop, raises. The exception leaves the loop, is logged by
\* the except clause, and the finally block runs.
BackendFails(w) ==
    /\ wpc[w] \in {"loop", "dequeue"}
    /\ wpc' = [wpc EXCEPT ![w] = "exited"]
    /\ cleaned' = finally_block(cleaned, w)
    /\ UNCHANGED <<bvars, backend, queue, nextId, producer, pprio, logs, results, now, flag,
                   ppc, pjoin, wtask, wstep, outcome, hist>>

\* Task.execute, first step: the Running row with percentage 0.
ExecuteStart(w) ==
    /\ wpc[w] = "execute"
    /\ logs' = update(logs, wtask[w].agent_id, PlainMessage(activity_message_started), 0, None)
    /\ wpc' = [wpc EXCEPT ![w] = "handler"]
    /\ UNCHANGED <<avars, backend, queue, nextId, producer, pprio, results, now, flag, ppc,
                   pjoin, wtask, wstep, outcome, hist>>

\* ---- binary floating point. A float is an IEEE 754 double: 53 significant
\* bits, round to nearest, ties to even. Here a float is
\* (hi * 2^35 + mid * 2^17 + lo) * 2^-scale with hi and mid of 18 bits and
\* lo of 17, so that no intermediate value leaves 32 bits.
Zero == [hi |-> 0, mid |-> 0, lo |-> 0, scale |-> 0]

\* The significand one unit in the last place higher.
next_up(f) ==
    IF f.lo + 1 < 2^17 THEN [f EXCEPT !.lo = @ + 1]
    ELSE IF f.mid + 1 < 2^18 THEN [f EXCEPT !.lo = 0, !.mid = @ + 1]
    ELSE IF f.hi + 1 < 2^18 THEN [f EXCEPT !.lo = 0, !.mid = 0, !.hi = @ + 1]
    ELSE [hi |-> 2^17, mid |-> 0, lo |-> 0, scale |-> f.scale - 1]

\* num / den on ints (true division) for 0 <= num < den < 2^13: long
\* division to 53 significant bits, rounded on the remainder.
truediv(num, den) ==
    IF num = 0 THEN Zero
    ELSE LET zeros == CHOOSE z \in 0..12 : num * 2^(z + 1) >= den /\ num * 2^z < den
             rem0 == num * 2^zeros
             rem1 == (rem0 * 2^18) % den
             rem2 == (rem1 * 2^18) % den
             rem3 == (rem2 * 2^17) % den
             exact == [hi |-> (rem0 * 2^18) \div den,
                       mid |-> (rem1 * 2^18) \div den,
                       lo |-> (rem2 * 2^17) \div den,
                       scale |-> zeros + 53]
         IN  IF 2 * rem3 > den \/ (2 * rem3 = den /\ exact.lo % 2 = 1)
             THEN next_up(exact) ELSE exact

\* f * 100 on floats: the exact product, of 59 or 60 bits, rounded to 53.
times_100(f) ==
    IF f = Zero THEN Zero
    ELSE LET lo100 == f.lo * 100
             mid100 == f.mid * 100 + lo100 \div 2^17
             top == f.hi * 100 + mid100 \div 2^18
             pmid == mid100 % 2^18
             plo == lo100 % 2^17
             excess == IF top >= 2^24 THEN 7 ELSE 6
             dropped == plo % 2^excess
             exact == [hi |-> top \div 2^excess,
                       mid |-> (top % 2^excess) * 2^(18 - excess) + pmid \div 2^excess,
                       lo |-> (pmid % 2^excess) * 2^(17 - excess) + plo \div 2^excess,
                       scale |-> f.scale - excess]
         IN  IF dropped > 2^(excess - 1) \/ (dropped = 2^(excess - 1) /\ exact.lo % 2 = 1)
             THEN next_up(exact) ELSE exact

\* int(f) on a float 0 <= f < 2^18: the fraction is cut off.
int(f) == IF f = Zero \/ f.scale >= 53 THEN 0 ELSE f.hi \div 2^(f.scale - 35)

\* Pipeline._run_task: the percentage logged before step i of total_steps,
\* int((i / total_steps) * 100).
StepPercentage(i, total_steps) == int(times_100(truediv(i, total_steps)))

\* The handler reports progress: a pipeline before each of its steps, a
\* progress-reporting handler whenever it chooses.
HandlerProgress(w) ==
    /\ wpc[w] = "handler"
    /\ \/ /\ wtask[w].task_name = "pipeline"
          /\ wstep[w] < num_steps
          /\ logs' = update(logs, wtask[w].agent_id, PlainMessage("Started step"),
                            StepPercentage(wstep[w], num_steps), None)
       \/ /\ wtask[w].task_name = "progress"
          /\ wstep[w] < MaxReports
          /\ logs' = update(logs, wtask[w].agent_id, PlainMessage("progress"), 50, None)
    /\ wstep' = [wstep EXCEPT ![w] = @ + 1]
    /\ UNCHANGED <<avars, backend, queue, nextId, producer, pprio, results, now, flag, ppc,
                   pjoin, wpc, wtask, outcome, hist>>

\* An except branch that logs the failure twice.
ExecuteError_twice(lg, id, e) ==
    update(update(lg, id, FormatError(activity_message_error, e), NullPct, ERROR),
           id, FormatError(activity_message_error, e), NullPct, ERROR)

\* Task.execute, except branch: the Error row; execute returns None.
ExecuteError(lg, id, e) ==
    update(lg, id, FormatError(activity_message_error, e), NullPct, ERROR)

\* A store that is skipped.
StoreResult_skip(rs, id, v) == rs

\* A store that gives the result no time to live.
StoreResult_no_ttl(rs, id, v) == set(rs, id, v, 0)

\* Task.execute, after the handler: the result is stored under the agent-id.
StoreResult(rs, id, v) == set(rs, id, v, result_ttl)

\* The handler returns v. serialize refuses what is no BaseModel (None): the
\* TypeError takes the except branch.
HandlerReturn(w, vals) ==
    /\ wpc[w] = "handler"
    /\ wtask[w].task_name # "fanout"
    /\ wtask[w].task_name = "pipeline" => wstep[w] = num_steps
    /\ \E v \in vals :
        IF v = None
        THEN /\ logs' = ExecuteError(logs, wtask[w].agent_id, "TypeError")
             /\ outcome' = [outcome EXCEPT ![wtask[w].agent_id] =
                    [kind |-> "return", value |-> None, exc |-> "-",
                     returned |-> None, done |-> TRUE]]
             /\ wpc' = [wpc EXCEPT ![w] = "loop"]
             /\ wtask' = [wtask EXCEPT ![w] = NoTask]
             /\ wstep' = [wstep EXCEPT ![w] = 0]
             /\ UNCHANGED results
        ELSE /\ results' = StoreResult(results, wtask[w].agent_id, v)
             /\ outcome' = [outcome EXCEPT ![wtask[w].agent_id] =
                    [kind |-> "return", value |-> v, exc |-> "-",
                     returned |-> None, done |-> FALSE]]
             /\ wpc' = [wpc EXCEPT ![w] = "stored"]
             /\ UNCHANGED <<logs, wtask, wstep>>
    /\ UNCHANGED <<avars, backend, queue, nextId, producer, pprio, now, flag, ppc, pjoin,
                   hist>>

\* An except branch that also stores a result.
HandlerRaise_storing(w, excs) ==
    /\ wpc[w] = "handler"
    /\ \E e \in excs :
        /\ logs' = ExecuteError(logs, wtask[w].agent_id, e)
        /\ outcome' = [outcome EXCEPT ![wtask[w].agent_id] =
               [kind |-> "raise", value |-> None, exc |-> e,
                returned |-> None, done |-> TRUE]]
    /\ results' = set(results, wtask[w].agent_id, "v1", result_ttl)
    /\ wpc' = [wpc EXCEPT ![w] = "loop"]
    /\ wtask' = [wtask EXCEPT ![w] = NoTask]
    /\ wstep' = [wstep EXCEPT ![w] = 0]
    /\ UNCHANGED <<avars, backend, queue, nextId, producer, pprio, now, flag, ppc,
                   pjoin, hist>>

\* The handler raises e: Task.execute catches it.
HandlerRaise(w, excs) ==
    /\ wpc[w] = "handler"
    /\ \E e \in excs :
        /\ logs' = ExecuteError(logs, wtask[w].agent_id, e)
        /\ outcome' = [outcome EXCEPT ![wtask[w].agent_id] =
               [kind |-> "raise", value |-> None, exc |-> e,
                returned |-> None, done |-> TRUE]]
    /\ wpc' = [wpc EXCEPT ![w] = "loop"]
    /\ wtask' = [wtask EXCEPT ![w] = NoTask]
    /\ wstep' = [wstep EXCEPT ![w] = 0]
    /\ UNCHANGED <<avars, backend, queue, nextId, producer, pprio, results, now, flag, ppc,
                   pjoin, hist>>

\* Task.execute, last step: the Complete row; execute returns the result.
ExecuteComplete(w) ==
    /\ wpc[w] = "stored"
    /\ logs' = update(logs, wtask[w].agent_id, PlainMessage(activity_message_complete),
                      100, COMPLETE)
    /\ outcome' = [outcome EXCEPT ![wtask[w].agent_id].returned = outcome[wtask[w].agent_id].value,
                                  ![wtask[w].agent_id].done = TRUE]
    /\ wpc' = [wpc EXCEPT ![w] = "loop"]
    /\ wtask' = [wtask EXCEPT ![w] = NoTask]
    /\ wstep' = [wstep EXCEPT ![w] = 0]
    /\ UNCHANGED <<avars, backend, queue, nextId, producer, pprio, results, now, flag, ppc,
                   pjoin, hist>>

\* A worker process dies (killed by the operating system).
WorkerCrash(w) ==
    /\ Alive(w)
    /\ \E v \in Workers \ {w} : Alive(v)
    /\ wpc' = [wpc EXCEPT ![w] = "crashed"]
    /\ UNCHANGED <<avars, backend, queue, nextId, producer, pprio, logs, results, now, flag,
                   ppc, pjoin, wtask, wstep, outcome, hist>>

\* Time passes. The clock is read only by get and by get_result's loop, so it
\* is advanced only while some stored result has not yet expired or a client waits.
Tick ==
    /\ now < MaxTime
    /\ \/ \E id \in Ids : results[id] # NoResult /\ results[id].expires_at > now
       \/ waiter.ret = "waiting"
    /\ now' = now + 1
    /\ UNCHANGED <<avars, backend, queue, nextId, producer, pprio, logs, results, flag, ppc,
                   pjoin, wpc, wtask, wstep, outcome, hist>>

\* ---------------------------------------------------- the key-value store
\* A client calls set(key, value, ttl_seconds).
KvSet ==
    /\ \E key \in KvKeys, value \in KvValues, ttl_seconds \in KvTtls :
        /\ results' = set(results, key, value, ttl_seconds)
        /\ kv' = [set_by |-> [kv.set_by EXCEPT ![key] = [value |-> value,
                                                         ttl_seconds |-> ttl_seconds,
                                                         at |-> now]],
                  call |-> [op |-> "set", key |-> key, ret |-> None, at |-> now]]
    /\ UNCHANGED <<paging, runner, cleaned, processes, num_steps, header, reg, fan, pipe, meta,
                   direct, waiter, wire, ties, last, backend, queue, nextId, producer, pprio,
                   logs, now, flag, ppc, pjoin, wpc, wtask, wstep, outcome, hist>>

\* A client calls get(key).
KvGet ==
    /\ \E key \in KvKeys :
        kv' = [kv EXCEPT !.call = [op |-> "get", key |-> key, ret |-> get(results, key),
                                   at |-> now]]
    /\ UNCHANGED <<paging, runner, cleaned, processes, num_steps, header, reg, fan, pipe, meta,
                   direct, waiter, wire, ties, last, backend, queue, nextId, producer, pprio,
                   logs, results, now, flag, ppc, pjoin, wpc, wtask, wstep, outcome, hist>>

\* brpop's poll runs _cleanup_expired.
KvCleanup ==
    /\ results' = _cleanup_expired(results)
    /\ kv' = [kv EXCEPT !.call = [op |-> "cleanup", key |-> 0, ret |-> None, at |-> now]]
    /\ UNCHANGED <<paging, runner, cleaned, processes, num_steps, header, reg, fan, pipe, meta,
                   direct, waiter, wire, ties, last, backend, queue, nextId, producer, pprio,
                   logs, now, flag, ppc, pjoin, wpc, wtask, wstep, outcome, hist>>

\* ------------------------------------------------------------------- pool
\* WorkerPool.start: the flag is cleared, then the workers are spawned.
Start ==
    /\ ppc = "new"
    /\ flag' = FALSE
    /\ wpc' = [w \in Workers |-> "loop"]
    /\ processes' = processes \o WorkerOrder
    /\ ppc' = "running"
    /\ UNCHANGED <<dvars, backend, queue, nextId, producer, pprio, logs, results, now, pjoin,
                   wtask, wstep, outcome, hist>>

\* WorkerPool.shutdown: the flag is set.
ShutdownBegin ==
    /\ ppc = "running"
    /\ flag' = TRUE
    /\ ppc' = "joining"
    /\ pjoin' = 1
    /\ UNCHANGED <<avars, backend, queue, nextId, producer, pprio, logs, results, now, wpc,
                   wtask, wstep, outcome, hist>>

\* shutdown: process.join returns because the process has exited.
ShutdownJoin ==
    /\ ppc = "joining"
    /\ pjoin <= Len(WorkerOrder)
    /\ ~Alive(WorkerOrder[pjoin])
    /\ pjoin' = pjoin + 1
    /\ UNCHANGED <<avars, backend, queue, nextId, producer, pprio, logs, results, now, flag,
                   ppc, wpc, wtask, wstep, outcome, hist>>

\* shutdown: the join timed out and the process is still alive: terminate it.
ShutdownTerminate ==
    /\ ppc = "joining"
    /\ pjoin <= Len(WorkerOrder)
    /\ Alive(WorkerOrder[pjoin])
    /\ wpc' = [wpc EXCEPT ![WorkerOrder[pjoin]] = "terminated"]
    /\ pjoin' = pjoin + 1
    /\ UNCHANGED <<avars, backend, queue, nextId, producer, pprio, logs, results, now, flag,
                   ppc, wtask, wstep, outcome, hist>>

\* shutdown returns: the process list is cleared.
ShutdownEnd ==
    /\ ppc = "joining"
    /\ pjoin > Len(WorkerOrder)
    /\ ppc' = "stopped"
    /\ pjoin' = 0
    /\ processes' = <<>>
    /\ UNCHANGED <<dvars, backend, queue, nextId, producer, pprio, logs, results, now, flag,
                   wpc, wtask, wstep, outcome, hist>>

\* WorkerPool.start after a shutdown: the flag is cleared and new processes
\* are spawned; what the old processes held is gone with them.
Restart ==
    /\ ppc = "stopped"
    /\ flag' = FALSE
    /\ wpc' = [w \in Workers |-> "loop"]
    /\ wtask' = [w \in Workers |-> NoTask]
    /\ wstep' = [w \in Workers |-> 0]
    /\ cleaned' = [w \in Workers |-> 0]
    /\ processes' = processes \o WorkerOrder
    /\ ppc' = "running"
    /\ UNCHANGED <<cvars, backend, queue, nextId, producer, pprio, logs, results, now,
                   pjoin, outcome, hist>>

\* ------------------------------------------------- core/worker.py worker
\* Task.started, Task.completed, Task.errored: the lifecycle rows of the task.
started(lg, id) == update(lg, id, PlainMessage(activity_message_started), 0, None)
completed(lg, id) == update(lg, id, PlainMessage(activity_message_complete), 100, COMPLETE)
errored(lg, id, e) == update(lg, id, FormatError(activity_message_error, e), NullPct, ERROR)

\* Worker._process_task: the handler is looked up, then task.started().
CoreProcessStart(w) ==
    /\ wpc[w] = "execute"
    /\ logs' = started(logs, wtask[w].agent_id)
    /\ wpc' = [wpc EXCEPT ![w] = "handler"]
    /\ UNCHANGED <<avars, backend, queue, nextId, producer, pprio, results, now, flag, ppc,
                   pjoin, wtask, wstep, outcome, hist>>

\* _process_task: the handler returns, then task.completed(); the value is dropped.
CoreHandlerReturn(w, vals) ==
    /\ wpc[w] = "handler"
    /\ \E v \in vals :
        outcome' = [outcome EXCEPT ![wtask[w].agent_id] =
            [kind |-> "return", value |-> v, exc |-> "-", returned |-> None, done |-> TRUE]]
    /\ logs' = completed(logs, wtask[w].agent_id)
    /\ wpc' = [wpc EXCEPT ![w] = "loop"]
    /\ wtask' = [wtask EXCEPT ![w] = NoTask]
    /\ UNCHANGED <<avars, backend, queue, nextId, producer, pprio, results, now, flag, ppc,
                   pjoin, wstep, hist>>

\* _process_task: the handler raises e. `except KeyError` comes first and
\* raises RuntimeError, which Worker.run re-raises after its cleanup: the
\* process ends. Any other Exception is passed to task.errored.
CoreHandlerRaise(w, excs) ==
    /\ wpc[w] = "handler"
    /\ \E e \in excs :
        /\ outcome' = [outcome EXCEPT ![wtask[w].agent_id] =
               [kind |-> "raise", value |-> None, exc |-> e, returned |-> None,
                done |-> TRUE]]
        /\ IF e = "KeyError"
           THEN /\ wpc' = [wpc EXCEPT ![w] = "fatal"]
                /\ UNCHANGED <<logs, wtask>>
           ELSE /\ logs' = errored(logs, wtask[w].agent_id, e)
                /\ wpc' = [wpc EXCEPT ![w] = "loop"]
                /\ wtask' = [wtask EXCEPT ![w] = NoTask]
    /\ UNCHANGED <<avars, backend, queue, nextId, producer, pprio, results, now, flag, ppc,
                   pjoin, wstep, hist>>

\* ------------------------------------------------------ activity tracker
Active == {QUEUED, RUNNING}

\* The rows of an activity that carry its greatest created_at: the last row
\* and the rows before it for as long as they share its timestamp.
LatestRows(lg, ti, id) ==
    {i \in 1..Len(lg[id]) : \A j \in (i + 1)..Len(lg[id]) : j \in ti[id]}

\* Activity.get_pending_ids: the activities whose row number 1 under
\* row_number() OVER (PARTITION BY activity_id ORDER BY created_at DESC) is
\* Queued or Running. Among rows with the same created_at the ordering does
\* not say which gets number 1, so these are the results the query can give.
get_pending_ids(lg, ti) ==
    LET must == {id \in Ids : /\ lg[id] # <<>>
                              /\ \A i \in LatestRows(lg, ti, id) : lg[id][i].status \in Active}
        may == {id \in Ids : \E i \in LatestRows(lg, ti, id) : lg[id][i].status \in Active}
    IN  {must \cup X : X \in SUBSET (may \ must)}

\* Activity.get_active_count: the counts the same selection can give.
get_active_count(lg, ti) == {Cardinality(P) : P \in get_pending_ids(lg, ti)}

\* cancel_pending: a Canceled row for each of the pending ids.
cancel_pending(lg, pending_agent_ids) ==
    [id \in Ids |->
        IF id \in pending_agent_ids
        THEN Append(lg[id], Row(CANCELED, NullPct, PlainMessage("Canceled due to shutdown")))
        ELSE lg[id]]

\* Activity.get_list: the status column of an activity's item is that of its
\* row number 1 under the same ordering, so these are the statuses it can show.
get_list(lg, ti, id) == {lg[id][i].status : i \in LatestRows(lg, ti, id)}

\* Activity.get_by_agent_id with the logs relationship, ORDER BY created_at:
\* the orders in which the rows can be loaded. Rows with the same created_at
\* come in any order.
get_by_agent_id(lg, ti, id) ==
    {p \in [1..Len(lg[id]) -> 1..Len(lg[id])] :
        /\ \A a, b \in 1..Len(lg[id]) : a # b => p[a] # p[b]
        /\ \A a, b \in 1..Len(lg[id]) :
            (a < b /\ p[a] > p[b]) => \A j \in (p[b] + 1)..p[a] : j \in ti[id]}

\* The detail view's current status: that of the last of the loaded rows.
detail_status(lg, id, p) == lg[id][p[Len(lg[id])]].status

Call(op, value) == [op |-> op, value |-> value, status |-> "-", arg |-> NoMap, items |-> {}]
View(op, id, status) ==
    [op |-> op, value |-> id, status |-> status, arg |-> NoMap, items |-> {}]

\* activity.cancel_pending(). Where the clock may stand still between two
\* rows (mayTie), a Canceled row can share created_at with the row before.
CancelPending(mayTie) ==
    /\ \E pending_agent_ids \in get_pending_ids(logs, ties) :
        /\ logs' = cancel_pending(logs, pending_agent_ids)
        /\ last' = Call("cancel_pending", Cardinality(pending_agent_ids))
        /\ \E T \in (IF mayTie
                      THEN SUBSET {id \in pending_agent_ids : Len(logs[id]) < MaxRows}
                      ELSE {{}}) :
            ties' = [id \in Ids |->
                        IF id \in T THEN ties[id] \cup {Len(logs[id]) + 1} ELSE ties[id]]
    /\ UNCHANGED <<xvars, backend, queue, nextId, producer, pprio, results, now, flag, ppc,
                   pjoin, wpc, wtask, wstep, outcome, hist>>

\* activity.create(): the header and the Queued row.
ActCreate ==
    /\ nextId <= MaxActivities
    /\ logs' = create(logs, nextId)
    /\ nextId' = nextId + 1
    /\ last' = Call("create", nextId)
    /\ UNCHANGED <<xvars, ties, backend, queue, producer, pprio, results, now, flag, ppc,
                   pjoin, wpc, wtask, wstep, outcome, hist>>

\* activity.update(agent_id, message, status=...): one more row; the clock
\* has advanced since the activity's previous row, or it has not.
ActUpdate ==
    /\ \E id \in Ids, status \in {RUNNING, COMPLETE}, tie \in BOOLEAN :
        /\ HasActivity(id)
        /\ Len(logs[id]) < MaxRows
        /\ logs' = update(logs, id, PlainMessage("update"), NullPct, status)
        /\ ties' = [ties EXCEPT ![id] = IF tie THEN @ \cup {Len(logs[id]) + 1} ELSE @]
        /\ last' = Call("update", id)
    /\ UNCHANGED <<xvars, backend, queue, nextId, producer, pprio, results, now, flag, ppc,
                   pjoin, wpc, wtask, wstep, outcome, hist>>

\* activity.count_active().
CountActive ==
    /\ \E n \in get_active_count(logs, ties) : last' = Call("count_active", n)
    /\ UNCHANGED <<xvars, ties, backend, queue, nextId, producer, pprio, logs, results, now,
                   flag, ppc, pjoin, wpc, wtask, wstep, outcome, hist>>

\* activity.list(): the item of one activity on the page.
ActList ==
    /\ \E id \in Ids :
        \E status \in get_list(logs, ties, id) : last' = View("list", id, status)
    /\ UNCHANGED <<xvars, ties, backend, queue, nextId, producer, pprio, logs, results, now,
                   flag, ppc, pjoin, wpc, wtask, wstep, outcome, hist>>

\* activity.detail(agent_id): null for an agent-id without an activity.
ActDetail ==
    /\ \E id \in Ids :
        IF HasActivity(id)
        THEN \E p \in get_by_agent_id(logs, ties, id) :
                last' = View("detail", id, detail_status(logs, id, p))
        ELSE last' = View("detail", id, None)
    /\ UNCHANGED <<xvars, ties, backend, queue, nextId, producer, pprio, logs, results, now,
                   flag, ppc, pjoin, wpc, wtask, wstep, outcome, hist>>

\* ------------------------------------------------------- metadata filter
\* str(value) of the filter's value.
str(value) == value.text

\* metadata_[key].as_string(): NULL for a missing key or NULL metadata; the
\* text of a string; for a number its text where the dialect extracts text
\* (->>), and a number, which equals no text, where it does not (JSON_EXTRACT).
as_string(metadata, key, dialect) ==
    IF metadata[key] = Absent THEN Absent
    ELSE IF metadata[key].type = "int" /\ dialect = "sqlite" THEN metadata[key]
    ELSE [type |-> "str", text |-> metadata[key].text]

\* A filter that lets through a row matching any one of its keys.
metadata_matches_any(metadata, metadata_filter, dialect) ==
    \/ metadata_filter = NoMap
    \/ \E key \in Keys :
        /\ metadata_filter[key] # Absent
        /\ as_string(metadata, key, dialect) = [type |-> "str", text |-> str(metadata_filter[key])]

\* if metadata_filter: for key, value in metadata_filter.items():
\*     stmt.filter(cls.metadata_[key].as_string() == str(value))
metadata_matches(metadata, metadata_filter, dialect) ==
    \A key \in Keys :
        metadata_filter[key] # Absent =>
            as_string(metadata, key, dialect) = [type |-> "str", text |-> str(metadata_filter[key])]

Query(op, id, status, metadata_filter, items) ==
    [op |-> op, value |-> id, status |-> status, arg |-> metadata_filter, items |-> items]

\* activity.create(..., metadata=...).
ActCreateMetadata ==
    /\ nextId <= MaxFilterActivities
    /\ logs' = create(logs, nextId)
    /\ \E metadata \in Maps : meta' = [meta EXCEPT ![nextId] = metadata]
    /\ nextId' = nextId + 1
    /\ last' = Call("create", nextId)
    /\ UNCHANGED <<yvars, direct, waiter, wire, ties, backend, queue, producer, pprio, results, now,
                   flag, ppc, pjoin, wpc, wtask, wstep, outcome, hist>>

\* A filtered read changes nothing but what it returns, so reads are taken
\* from the states that writes leave: a read after a read reaches no other result.
AfterWrite == last.op \in {"-", "create"}

\* activity.detail(agent_id, metadata_filter): the activity, or null.
FilterDetail ==
    /\ AfterWrite
    /\ \E id \in Ids, metadata_filter \in Maps, dialect \in Dialects :
        last' = Query("filter_detail", id,
                      IF HasActivity(id) /\ metadata_matches(meta[id], metadata_filter, dialect)
                      THEN "found" ELSE None,
                      metadata_filter, {})
    /\ UNCHANGED <<xvars, ties, backend, queue, nextId, producer, pprio, logs, results, now,
                   flag, ppc, pjoin, wpc, wtask, wstep, outcome, hist>>

\* activity.list(metadata_filter=...) with a page that holds every row: the
\* items, and total counted under the same filter.
FilterList ==
    /\ AfterWrite
    /\ \E metadata_filter \in Maps, dialect \in Dialects :
        LET rows == {id \in Ids : /\ HasActivity(id)
                                  /\ metadata_matches(meta[id], metadata_filter, dialect)}
        IN  last' = Query("filter_list", Cardinality(rows), "-", metadata_filter, rows)
    /\ UNCHANGED <<xvars, ties, backend, queue, nextId, producer, pprio, logs, results, now,
                   flag, ppc, pjoin, wpc, wtask, wstep, outcome, hist>>

\* ------------------------------------------------------ result rendezvous
\* CONF.key_prefix.
key_prefix == "agentexec"
KEY_RESULT == <<key_prefix, "result">>

\* backend.format_key(*args): the parts joined by underscores.
RECURSIVE format_key(_)
format_key(args) ==
    IF Len(args) = 1 THEN args[1] ELSE args[1] \o "_" \o format_key(Tail(args))

\* state.aset_result's key for an agent-id.
state_result_key(agent_id) == format_key(KEY_RESULT \o <<ToString(agent_id)>>)

\* core/results.py get_result's key: f"result:{agent_id}".
result_key(agent_id) == "result:" \o ToString(agent_id)

\* backend.serialize(obj): JSON bytes tagged with the object's class.
serialize(value) == [enc |-> "json", class |-> "Result", value |-> value]

\* pickle.dumps(obj).
pickle_dumps(value) == [enc |-> "pickle", class |-> "-", value |-> value]

\* pickle.loads(data): the object, or UnpicklingError for bytes that are no pickle.
pickle_loads(data) == IF data.enc = "pickle" THEN data.value ELSE "UnpicklingError"

\* A store in which the client's reads find nothing.
redis_get_nothing(key) == NoData

\* redis.get(key): what the store holds under the key. Task.execute writes
\* the serialized result under state_result_key with a TTL; a client of the
\* store writes under result_key.
redis_get(key) ==
    IF \E id \in Ids : key = state_result_key(id) /\ get(results, id) # None
    THEN serialize(get(results, CHOOSE id \in Ids : key = state_result_key(id)))
    ELSE IF \E id \in Ids : key = result_key(id)
    THEN direct[CHOOSE id \in Ids : key = result_key(id)]
    ELSE NoData

\* redis.set(f"result:{agent_id}", pickle.dumps(value)) by a client of the store.
ClientSet(ids, values) ==
    /\ \E id \in ids, value \in values :
        /\ direct[id] = NoData
        /\ direct' = [direct EXCEPT ![id] = pickle_dumps(value)]
    /\ UNCHANGED <<yvars, meta, waiter, wire, ties, last, backend, queue, nextId, producer, pprio,
                   logs, results, now, flag, ppc, pjoin, wpc, wtask, wstep, outcome, hist>>

Waiting(op, ids, timeout) ==
    [op |-> op, ids |-> ids, got |-> [i \in DOMAIN ids |-> None], start |-> now,
     timeout |-> timeout, polled |-> FALSE, ret |-> "waiting"]

\* get_result(agent_id, timeout): start = time.time().
GetResult(ids) ==
    /\ waiter.ret # "waiting"
    /\ \E id \in ids, timeout \in 0..MaxTime : waiter' = Waiting("get_result", <<id>>, timeout)
    /\ UNCHANGED <<yvars, meta, direct, wire, ties, last, backend, queue, nextId, producer, pprio,
                   logs, results, now, flag, ppc, pjoin, wpc, wtask, wstep, outcome, hist>>

\* gather(*tasks): one get_result for each task, each with the default timeout.
Gather(ids) ==
    /\ waiter.ret # "waiting"
    /\ \E awaited \in [1..MaxJoin -> ids] : waiter' = Waiting("gather", awaited, MaxTime)
    /\ UNCHANGED <<yvars, meta, direct, wire, ties, last, backend, queue, nextId, producer, pprio,
                   logs, results, now, flag, ppc, pjoin, wpc, wtask, wstep, outcome, hist>>

\* A gather that hands out results in the order in which they arrived.
gather_in_arrival_order(got, i, value) ==
    [got EXCEPT ![CHOOSE j \in DOMAIN got : got[j] = None /\ \A k \in 1..(j - 1) : got[k] # None]
        = value]

\* asyncio.gather: the i-th result is that of the i-th awaitable.
gather_results(got, i, value) == [got EXCEPT ![i] = value]

\* while time.time() - start < timeout.
within_timeout(start, timeout) == now - start < timeout

\* One turn of the i-th get_result's loop: redis.get; data that is not None
\* is unpickled and returned, otherwise the loop sleeps.
WaitPoll ==
    /\ waiter.ret = "waiting"
    /\ \E i \in DOMAIN waiter.ids :
        /\ waiter.got[i] = None
        /\ within_timeout(waiter.start, waiter.timeout)
        /\ LET data == redis_get(result_key(waiter.ids[i]))
               got == gather_results(waiter.got, i, pickle_loads(data))
           IN  waiter' =
                 IF data = NoData THEN [waiter EXCEPT !.polled = TRUE]
                 ELSE IF pickle_loads(data) = "UnpicklingError"
                 THEN [waiter EXCEPT !.polled = TRUE, !.ret = "UnpicklingError"]
                 ELSE [waiter EXCEPT !.polled = TRUE, !.got = got,
                                     !.ret = IF \A j \in DOMAIN got : got[j] # None
                                             THEN "value" ELSE "waiting"]
    /\ UNCHANGED <<yvars, meta, direct, wire, ties, last, backend, queue, nextId, producer, pprio,
                   logs, results, now, flag, ppc, pjoin, wpc, wtask, wstep, outcome, hist>>

\* The loop of a get_result ends without data: TimeoutError, which fails a
\* gather as a whole. With a timeout above 0 the loop has polled at least once.
WaitTimeout ==
    /\ waiter.ret = "waiting"
    /\ \E i \in DOMAIN waiter.ids : waiter.got[i] = None
    /\ ~within_timeout(waiter.start, waiter.timeout)
    /\ waiter.timeout > 0 => waiter.polled
    /\ waiter' = [waiter EXCEPT !.ret = "TimeoutError"]
    /\ UNCHANGED <<yvars, meta, direct, wire, ties, last, backend, queue, nextId, producer, pprio,
                   logs, results, now, flag, ppc, pjoin, wpc, wtask, wstep, outcome, hist>>

\* ---------------------------------------------------------------- fan-out
\* A handler that enqueues sub-tasks and joins them:
\*     a = await enqueue(...); b = await enqueue(...); await gather(a, b)
\* Worker._run awaits task.execute() before its next dequeue, so the worker
\* that runs this handler takes no other task until the gather has ended.

\* enqueue inside the handler: Task.create mints the agent-id and creates
\* the activity, then the envelope is pushed with low priority.
FanoutEnqueue(w) ==
    /\ wpc[w] = "handler"
    /\ wtask[w].task_name = "fanout"
    /\ fan[w].ret = "-"
    /\ Len(fan[w].kids) < Children
    /\ nextId \in Ids
    /\ logs' = create(logs, nextId)
    /\ queue' = redis_push(LOW, backend, queue, [agent_id |-> nextId, task_name |-> "plain"])
    /\ hist' = Append(hist, Enq([agent_id |-> nextId, task_name |-> "plain"], LOW))
    /\ fan' = [fan EXCEPT ![w].kids = Append(@, nextId)]
    /\ nextId' = nextId + 1
    /\ UNCHANGED <<zvars, meta, direct, waiter, wire, ties, last, backend, producer, pprio,
                   results, now, flag, ppc, pjoin, wpc, wtask, wstep, outcome>>

\* gather(a, b): one get_result loop for each sub-task is started.
FanoutGather(w) ==
    /\ wpc[w] = "handler"
    /\ wtask[w].task_name = "fanout"
    /\ fan[w].ret = "-"
    /\ Len(fan[w].kids) = Children
    /\ fan' = [fan EXCEPT ![w].got = [i \in 1..Children |-> None], ![w].ret = "waiting"]
    /\ UNCHANGED <<zvars, meta, direct, waiter, wire, ties, last, backend, queue, nextId,
                   producer, pprio, logs, results, now, flag, ppc, pjoin, wpc, wtask, wstep,
                   outcome, hist>>

\* The results the loops hold after each pending one has read its key once.
RECURSIVE poll_all(_, _, _)
poll_all(kids, got, i) ==
    IF i > Len(kids) THEN got
    ELSE LET data == redis_get(result_key(kids[i]))
         IN  poll_all(kids,
                      IF got[i] = None /\ data # NoData
                      THEN gather_results(got, i, pickle_loads(data)) ELSE got,
                      i + 1)

\* One turn of the pending get_result loops: redis.get of result:<agent_id>.
FanoutPoll(w) ==
    /\ fan[w].ret = "waiting"
    /\ ~fan[w].polled
    /\ fan[w].waited < MaxSleeps
    /\ LET got == poll_all(fan[w].kids, fan[w].got, 1)
       IN  fan' = [fan EXCEPT ![w].got = got, ![w].polled = TRUE,
                              ![w].ret = IF \A j \in DOMAIN got : got[j] # None
                                         THEN "value" ELSE "waiting"]
    /\ UNCHANGED <<zvars, meta, direct, waiter, wire, ties, last, backend, queue, nextId,
                   producer, pprio, logs, results, now, flag, ppc, pjoin, wpc, wtask, wstep,
                   outcome, hist>>

\* asyncio.sleep(0.5) in the loops: the timeout is MaxSleeps sleeps long.
FanoutSleep(w) ==
    /\ fan[w].ret = "waiting"
    /\ fan[w].polled
    /\ fan[w].waited < MaxSleeps
    /\ fan' = [fan EXCEPT ![w].waited = @ + 1, ![w].polled = FALSE]
    /\ UNCHANGED <<zvars, meta, direct, waiter, wire, ties, last, backend, queue, nextId,
                   producer, pprio, logs, results, now, flag, ppc, pjoin, wpc, wtask, wstep,
                   outcome, hist>>

\* A loop ends without data: TimeoutError leaves gather and the handler, and
\* Task.execute's except branch writes the Error row.
FanoutTimeout(w) ==
    /\ fan[w].ret = "waiting"
    /\ fan[w].waited >= MaxSleeps
    /\ logs' = ExecuteError(logs, wtask[w].agent_id, "TimeoutError")
    /\ outcome' = [outcome EXCEPT ![wtask[w].agent_id] =
           [kind |-> "raise", value |-> None, exc |-> "TimeoutError",
            returned |-> None, done |-> TRUE]]
    /\ fan' = [fan EXCEPT ![w] = NoFan]
    /\ wpc' = [wpc EXCEPT ![w] = "loop"]
    /\ wtask' = [wtask EXCEPT ![w] = NoTask]
    /\ wstep' = [wstep EXCEPT ![w] = 0]
    /\ UNCHANGED <<zvars, meta, direct, waiter, wire, ties, last, backend, queue, nextId,
                   producer, pprio, results, now, flag, ppc, pjoin, hist>>

\* gather has returned the tuple: the handler returns its result, which
\* Task.execute stores.
FanoutReturn(w, vals) ==
    /\ wpc[w] = "handler"
    /\ wtask[w].task_name = "fanout"
    /\ fan[w].ret = "value"
    /\ \E v \in vals :
        /\ results' = StoreResult(results, wtask[w].agent_id, v)
        /\ outcome' = [outcome EXCEPT ![wtask[w].agent_id] =
               [kind |-> "return", value |-> v, exc |-> "-",
                returned |-> None, done |-> FALSE]]
    /\ fan' = [fan EXCEPT ![w] = NoFan]
    /\ wpc' = [wpc EXCEPT ![w] = "stored"]
    /\ UNCHANGED <<zvars, meta, direct, waiter, wire, ties, last, backend, queue, nextId,
                   producer, pprio, logs, now, flag, ppc, pjoin, wtask, wstep, hist>>

\* --------------------------------------------------------------- pipeline
\* Classes that steps are annotated with: SubA is a subclass of A.
Classes == {"A", "SubA", "B"}
issubclass(c, d) == c = d \/ (c = "SubA" /\ d = "A")

\* Pipeline.step: param_types maps each parameter but self to its hint, or
\* to None where it has none.
ParamTypes == UNION {[1..k -> {"A", None}] : k \in 0..MaxArity}

\* Pipeline.step: return_type is hints.get("return"): None where the handler
\* has no return annotation, else a class or tuple[...] of classes. A value
\* is written like its type: a single instance or a tuple of instances.
Unannotated == [kind |-> "none", types |-> <<>>]
Single(c) == [kind |-> "single", types |-> <<c>>]
TupleOf(t) == [kind |-> "tuple", types |-> t]
Annotated ==
    {Single(c) : c \in Classes} \cup
    {TupleOf(t) : t \in UNION {[1..k -> Classes] : k \in 2..MaxArity}}
ReturnTypes == {Unannotated} \cup Annotated
FinalReturnTypes == {Unannotated, Single("B"), TupleOf(<<"B", "B">>)}

\* StepDefinition(name, order, handler, return_type, param_types).
StepDefinition(name, order, return_type, param_types) ==
    [name |-> name, order |-> order, return_type |-> return_type, param_types |-> param_types]

\* Pipeline._sorted_steps: sorted(self._steps.values(), key=order). The sort
\* is stable: steps with equal keys keep their declaration order.
_sorted_steps(steps) ==
    IF Len(steps) = PipelineSteps /\ steps[2].order < steps[1].order
    THEN <<steps[2], steps[1]>> ELSE steps

\* _validate_type_flow, one element: checked only for an annotated
\* parameter; identical, or both classes and a subclass.
types_connect(ret_type, param_type) ==
    param_type = None \/ ret_type = param_type \/ issubclass(ret_type, param_type)

\* _validate_type_flow, one adjacent pair: a step without return annotation
\* is skipped; a tuple return type is unpacked, any other is a 1-tuple; the
\* counts must match and each element must connect.
pair_connects(step, next_step) ==
    \/ step.return_type = Unannotated
    \/ /\ Len(step.return_type.types) = Len(next_step.param_types)
       /\ \A k \in DOMAIN next_step.param_types :
            types_connect(step.return_type.types[k], next_step.param_types[k])

\* A validation that checks no pair.
_validate_type_flow_nothing(steps) == TRUE

\* Pipeline._validate_type_flow: TRUE where it returns, FALSE where it
\* raises TypeError. The final step must not return a tuple.
_validate_type_flow(steps) ==
    /\ \A k \in 1..(Len(steps) - 1) : pair_connects(steps[k], steps[k + 1])
    /\ steps # <<>> => steps[Len(steps)].return_type.kind # "tuple"

\* Pipeline._run_step: the positional arguments that the keyword arguments
\* amount to. zip stops at the shorter of parameter names and tuple; a value
\* that is no tuple goes to the first parameter, if there is one.
kwargs(step, context) ==
    IF context.kind = "tuple"
    THEN SubSeq(context.types, 1, Min2(Len(step.param_types), Len(context.types)))
    ELSE IF step.param_types # <<>> THEN context.types ELSE <<>>

\* What a handler returns: a value of its return annotation, or any value
\* where it has none.
handler_returns(step) ==
    IF step.return_type = Unannotated THEN Annotated ELSE {step.return_type}

\* The class body: step "a" is declared with order key 1, then step "b"
\* with a key below, equal to or above it. The step that runs last has one
\* of the final return types.
PipeDeclare ==
    /\ pipe.pc = "-"
    /\ \E o \in 0..2, p1 \in ParamTypes, p2 \in ParamTypes,
          r1 \in ReturnTypes, r2 \in FinalReturnTypes :
        pipe' = [pipe EXCEPT !.pc = "declared",
                             !.steps = <<StepDefinition("a", 1, IF o = 0 THEN r2 ELSE r1,
                                                        IF o = 0 THEN p2 ELSE p1),
                                         StepDefinition("b", o, IF o = 0 THEN r1 ELSE r2,
                                                        IF o = 0 THEN p1 ELSE p2)>>]
    /\ UNCHANGED <<uvars, fan, meta, direct, waiter, wire, ties, last, backend, queue, nextId,
                   producer, pprio, logs, results, now, flag, ppc, pjoin, wpc, wtask, wstep,
                   outcome, hist>>

\* Pipeline.enqueue: validation, then queue.enqueue(self.name, context):
\* Task.create and the push.
PipeEnqueue ==
    /\ pipe.pc = "declared"
    /\ nextId \in Ids
    /\ IF _validate_type_flow(_sorted_steps(pipe.steps))
       THEN /\ pipe' = [pipe EXCEPT !.pc = "enqueued"]
            /\ logs' = create(logs, nextId)
            /\ queue' = redis_push(LOW, backend, queue,
                                   [agent_id |-> nextId, task_name |-> "pipeline"])
            /\ hist' = Append(hist, Enq([agent_id |-> nextId, task_name |-> "pipeline"], LOW))
            /\ nextId' = nextId + 1
       ELSE /\ pipe' = [pipe EXCEPT !.pc = "TypeError"]
            /\ UNCHANGED <<logs, queue, hist, nextId>>
    /\ UNCHANGED <<uvars, fan, meta, direct, waiter, wire, ties, last, backend, producer, pprio,
                   results, now, flag, ppc, pjoin, wpc, wtask, wstep, outcome>>

\* Pipeline.run, up to its loop: validation; the carry is the context.
PipeRun ==
    /\ pipe.pc = "declared"
    /\ pipe' = IF _validate_type_flow(_sorted_steps(pipe.steps))
               THEN [pipe EXCEPT !.pc = "running", !.i = 1, !.carry = Single("A")]
               ELSE [pipe EXCEPT !.pc = "TypeError"]
    /\ UNCHANGED <<uvars, fan, meta, direct, waiter, wire, ties, last, backend, queue, nextId,
                   producer, pprio, logs, results, now, flag, ppc, pjoin, wpc, wtask, wstep,
                   outcome, hist>>

\* One turn of run's loop: _run_step binds the carry and calls the step. A
\* call that leaves a parameter without argument raises TypeError before
\* the handler runs; otherwise the handler's return is the new carry, and
\* after the last step the carry is what run returns.
PipeStep ==
    /\ pipe.pc = "running"
    /\ LET step == _sorted_steps(pipe.steps)[pipe.i]
           args == kwargs(step, pipe.carry)
       IN  IF Len(args) # Len(step.param_types)
           THEN pipe' = [pipe EXCEPT !.pc = "CallTypeError"]
           ELSE \E r \in handler_returns(step) :
                  pipe' = [pipe EXCEPT
                      !.calls = Append(@, [name |-> step.name, order |-> step.order,
                                           args |-> args, carry |-> pipe.carry,
                                           param_types |-> step.param_types]),
                      !.carry = r,
                      !.i = @ + 1,
                      !.pc = IF pipe.i = Len(pipe.steps) THEN "done" ELSE "running",
                      !.result = IF pipe.i = Len(pipe.steps) THEN r ELSE NoValue]
    /\ UNCHANGED <<uvars, fan, meta, direct, waiter, wire, ties, last, backend, queue, nextId,
                   producer, pprio, logs, results, now, flag, ppc, pjoin, wpc, wtask, wstep,
                   outcome, hist>>

\* --------------------------------------------------------------- registry
\* TaskDefinition.__init__(self, name, handler): the keywords it accepts.
TaskDefinition_accepts == {"name", "handler"}

\* WorkerPool._add_task: the keywords it constructs the TaskDefinition with.
_add_task_passes == {"name", "handler", "context_class", "result_class"}

\* WorkerPool._add_task: definition = TaskDefinition(...);
\* self._context.tasks[name] = definition. A keyword that __init__ does not
\* accept raises TypeError before the assignment.
_add_task(registry, name) ==
    IF _add_task_passes \subseteq TaskDefinition_accepts THEN registry \cup {name} ELSE registry

\* @pool.task(name) applied to a handler.
AddTask ==
    /\ \E name \in TaskNames :
        /\ name \notin reg.decorated
        /\ reg' = [reg EXCEPT !.decorated = @ \cup {name},
                              !.tasks = _add_task(@, name)]
    /\ UNCHANGED <<tvars, fan, pipe, meta, direct, waiter, wire, ties, last, backend, queue, nextId,
                   producer, pprio, logs, results, now, flag, ppc, pjoin, wpc, wtask, wstep,
                   outcome, hist>>

\* WorkerPool._spawn_workers: mp.Process(args=(worker_id, self._context)):
\* each process gets the context, and with it the registry, as it is now.
SpawnWorkers ==
    /\ ~reg.spawned
    /\ reg' = [reg EXCEPT !.spawned = TRUE,
                          !.before = reg.decorated,
                          !.worker = [w \in Workers |-> reg.tasks]]
    /\ UNCHANGED <<tvars, fan, pipe, meta, direct, waiter, wire, ties, last, backend, queue, nextId,
                   producer, pprio, logs, results, now, flag, ppc, pjoin, wpc, wtask, wstep,
                   outcome, hist>>

\* Worker._dequeue_task for a popped envelope of the given name:
\* self._context.tasks[data["task_name"]], a KeyError for a missing name.
Lookup(w) ==
    /\ reg.spawned
    /\ \E name \in reg.decorated :
        reg' = [reg EXCEPT !.found[w] =
                   [task_name |-> name,
                    ret |-> IF name \in reg.worker[w] THEN "definition" ELSE "KeyError"]]
    /\ UNCHANGED <<tvars, fan, pipe, meta, direct, waiter, wire, ties, last, backend, queue, nextId,
                   producer, pprio, logs, results, now, flag, ppc, pjoin, wpc, wtask, wstep,
                   outcome, hist>>

\* ------------------------------------------------------- the activity store
\* Sessions of the database, each with its own transaction.
Sessions == {"s1", "s2"}

\* A session that reads rows of transactions still open.
visible_dirty(h) == h # "absent"

\* What a session reads of another session's rows: the committed ones.
visible(h) == h = "committed"

\* The session has flushed a header that it has not committed.
InTransaction(s) == \E id \in Ids : header[id] = s

\* An index that lets a second header for the agent-id in.
unique_violation_never(h) == FALSE

\* Activity.agent_id, unique=True: the INSERT of a header for an agent-id
\* that has one fails.
unique_violation(h) == h = "committed"

\* A subquery that yields a value for every agent-id.
activity_id_subq_any(h) == "id"

\* Activity._append_log_stmt: select(cls.id).where(cls.agent_id == agent_id)
\* as a scalar subquery: NULL where no header is found.
activity_id_subq(h) == IF visible(h) THEN "id" ELSE "NULL"

\* create(agent_id=id), up to db.flush(): the header is inserted in the
\* session's transaction. A flush that fails rolls the transaction back.
\* The INSERT waits while another transaction holds a header for the id.
CreateFlush(s) ==
    /\ ~InTransaction(s)
    /\ \E id \in 1..MaxStoreIds :
        /\ header[id] \notin Sessions
        /\ IF unique_violation(header[id])
           THEN /\ last' = View("create", id, "IntegrityError")
                /\ UNCHANGED header
           ELSE /\ last' = View("flush", id, "-")
                /\ header' = [header EXCEPT ![id] = s]
    /\ UNCHANGED <<svars, reg, fan, pipe, meta, direct, waiter, wire, ties, backend, queue, nextId,
                   producer, pprio, logs, results, now, flag, ppc, pjoin, wpc, wtask, wstep,
                   outcome, hist>>

\* create, db.add(log); db.commit(): the first row is inserted and the
\* transaction committed.
CreateCommit(s) ==
    /\ \E id \in Ids :
        /\ header[id] = s
        /\ header' = [header EXCEPT ![id] = "committed"]
        /\ logs' = create(logs, id)
        /\ last' = View("create", id, "ok")
    /\ UNCHANGED <<svars, reg, fan, pipe, meta, direct, waiter, wire, ties, backend, queue, nextId,
                   producer, pprio, results, now, flag, ppc, pjoin, wpc, wtask, wstep,
                   outcome, hist>>

\* create fails after the flush (the INSERT of the row or the commit
\* fails, the connection or the process is lost): the transaction is
\* rolled back.
CreateFail(s) ==
    /\ \E id \in Ids :
        /\ header[id] = s
        /\ header' = [header EXCEPT ![id] = "absent"]
        /\ last' = View("create", id, "DBAPIError")
    /\ UNCHANGED <<svars, reg, fan, pipe, meta, direct, waiter, wire, ties, backend, queue, nextId,
                   producer, pprio, logs, results, now, flag, ppc, pjoin, wpc, wtask, wstep,
                   outcome, hist>>

\* Activity.append_log (update, complete, error): the INSERT with the
\* subquery for activity_id, then commit. activity_id is not nullable: a
\* NULL fails the INSERT, and the except branch rolls back and raises
\* ValueError.
AppendLog(s) ==
    /\ ~InTransaction(s)
    /\ \E id \in 1..MaxStoreIds, status \in {RUNNING, COMPLETE} :
        IF activity_id_subq(header[id]) = "NULL"
        THEN /\ last' = View("append_log", id, "ValueError")
             /\ UNCHANGED logs
        ELSE /\ Len(logs[id]) < MaxRows
             /\ logs' = update(logs, id, PlainMessage("update"), NullPct, status)
             /\ last' = View("append_log", id, "ok")
    /\ UNCHANGED <<uvars, fan, pipe, meta, direct, waiter, wire, ties, backend, queue, nextId,
                   producer, pprio, results, now, flag, ppc, pjoin, wpc, wtask, wstep,
                   outcome, hist>>

\* detail(agent_id) in a session: the header with its rows, or None.
Detail(s) ==
    /\ ~InTransaction(s)
    /\ \E id \in 1..MaxStoreIds :
        last' = View("detail", id,
                     IF ~visible(header[id]) THEN None
                     ELSE IF logs[id] = <<>> THEN "no logs"
                     ELSE logs[id][1].status)
    /\ UNCHANGED <<uvars, fan, pipe, meta, direct, waiter, wire, ties, backend, queue, nextId,
                   producer, pprio, logs, results, now, flag, ppc, pjoin, wpc, wtask, wstep,
                   outcome, hist>>

\* ------------------------------------------------------------------- list
\* Activity._get_list_stmt, ORDER BY is_active, active_priority,
\* started_at DESC NULLS LAST: the keys of an activity whose latest row has
\* the given status.
is_active(status) == IF status \in {RUNNING, QUEUED} THEN 0 ELSE 1
active_priority(status) == IF status = RUNNING THEN 1 ELSE IF status = QUEUED THEN 2 ELSE 3

\* Row a sorts strictly before row b.
SortsBefore(a, b) ==
    \/ is_active(a.status) < is_active(b.status)
    \/ /\ is_active(a.status) = is_active(b.status)
       /\ active_priority(a.status) < active_priority(b.status)
    \/ /\ is_active(a.status) = is_active(b.status)
       /\ active_priority(a.status) = active_priority(b.status)
       /\ a.started_at > b.started_at

\* The sequence of activities (by index) respects the ORDER BY.
InListOrder(order, activities) ==
    \A i, j \in DOMAIN order :
        i < j => ~SortsBefore(activities[order[j]], activities[order[i]])

\* The orders in which one execution of the statement may return the rows:
\* rows with equal keys come in an order that the database chooses.
list_orders(activities) ==
    {order \in [DOMAIN activities -> DOMAIN activities] :
        /\ \A i, j \in DOMAIN order : order[i] = order[j] => i = j
        /\ InListOrder(order, activities)}

\* query.offset((page - 1) * page_size).limit(page_size).
offset_limit(order, page, page_size) ==
    SubSeq(order, (page - 1) * page_size + 1, Min2(page * page_size, Len(order)))

\* The content of the store: activities with the status of their latest
\* row and their started_at; and the page size of the client.
ListBegin ==
    /\ paging.pc = "-"
    /\ \E n \in 1..MaxListed :
        \E activities \in [1..n -> [status : {RUNNING, QUEUED, COMPLETE},
                                    started_at : 0..MaxTime]],
           page_size \in 1..n :
            paging' = [paging EXCEPT !.pc = "listing", !.activities = activities,
                                     !.page_size = page_size, !.page = 1]
    /\ UNCHANGED <<runner, cleaned, processes, num_steps, kv, header, reg, fan, pipe, meta, direct, waiter, wire, ties, last,
                   backend, queue, nextId, producer, pprio, logs, results, now, flag, ppc,
                   pjoin, wpc, wtask, wstep, outcome, hist>>

\* list(session, page, page_size): the count query, then the statement for
\* the page, executed on its own. The client reads pages until it has
\* passed total.
ListPage ==
    /\ paging.pc = "listing"
    /\ \E order \in list_orders(paging.activities) :
        paging' = [paging EXCEPT
            !.total = Len(paging.activities),
            !.items = @ \o offset_limit(order, paging.page, paging.page_size),
            !.page = @ + 1,
            !.pc = IF paging.page * paging.page_size >= Len(paging.activities)
                   THEN "done" ELSE "listing"]
    /\ UNCHANGED <<runner, cleaned, processes, num_steps, kv, header, reg, fan, pipe, meta, direct, waiter, wire, ties, last,
                   backend, queue, nextId, producer, pprio, logs, results, now, flag, ppc,
                   pjoin, wpc, wtask, wstep, outcome, hist>>

\* -------------------------------------------------------------------- run
\* A clear that leaves the flag as it is.
shutdown_event_kept(f) == f

\* shutdown_event.clear(): the flag's key is deleted.
shutdown_event_clear(f) == FALSE

\* WorkerPool.run enters start(), on a new pool or on one whose shutdown has
\* returned: the shutdown event is cleared. Nothing is left of the processes
\* of an earlier run.
RunStart ==
    /\ \/ runner.pc = "new" /\ ppc = "new"
       \/ runner.pc = "returned" /\ ppc = "stopped"
    /\ runner.runs < MaxRuns
    /\ flag' = shutdown_event_clear(flag)
    /\ runner' = [pc |-> "spawning", interrupted |-> "-", runs |-> runner.runs + 1,
                  log_task |-> "none"]
    /\ ppc' = "new"
    /\ wpc' = [w \in Workers |-> "unborn"]
    /\ wtask' = [w \in Workers |-> NoTask]
    /\ wstep' = [w \in Workers |-> 0]
    /\ cleaned' = [w \in Workers |-> 0]
    /\ UNCHANGED <<paging, processes, num_steps, kv, header, reg, fan, pipe, meta, direct, waiter, wire, ties,
                   last, backend, queue, nextId, producer, pprio, logs, results, now, pjoin,
                   outcome, hist>>

\* _spawn_workers: the next process is created and started.
RunSpawn ==
    /\ runner.pc = "spawning"
    /\ \E i \in DOMAIN WorkerOrder :
        /\ wpc[WorkerOrder[i]] = "unborn"
        /\ \A j \in 1..(i - 1) : wpc[WorkerOrder[j]] # "unborn"
        /\ wpc' = [wpc EXCEPT ![WorkerOrder[i]] = "loop"]
        /\ processes' = Append(processes, WorkerOrder[i])
    /\ UNCHANGED <<dvars, backend, queue, nextId, producer, pprio, logs, results, now, flag,
                   ppc, pjoin, wtask, wstep, outcome, hist>>

\* start() returns: every process is started and the log handler is set.
RunStarted ==
    /\ runner.pc = "spawning"
    /\ \A w \in Workers : wpc[w] # "unborn"
    /\ ppc' = "running"
    /\ runner' = [runner EXCEPT !.pc = "started"]
    /\ UNCHANGED <<paging, cleaned, processes, num_steps, kv, header, reg, fan, pipe, meta, direct, waiter, wire, ties, last,
                   backend, queue, nextId, producer, pprio, logs, results, now, flag, pjoin,
                   wpc, wtask, wstep, outcome, hist>>

\* The finally block of _collect_logs: log_task.cancel(), then await
\* log_task. Cancelling a task that has ended changes nothing.
log_task_leaked(t) == t

log_task_cancel(t) == IF t = "subscribed" THEN "cancelled" ELSE t

\* asyncio.run(_loop()): _collect_logs creates the task of
\* _process_log_stream and polls the processes.
RunCollect ==
    /\ runner.pc = "started"
    /\ runner' = [runner EXCEPT !.pc = "collecting", !.log_task = "subscribed"]
    /\ UNCHANGED <<paging, cleaned, processes, num_steps, kv, header, reg, fan, pipe, meta, direct, waiter, wire, ties, last,
                   backend, queue, nextId, producer, pprio, logs, results, now, flag, ppc,
                   pjoin, wpc, wtask, wstep, outcome, hist>>

\* A worker process ends on its own while run waits: its loop raised, or
\* the operating system killed it. Every worker may end this way.
WorkerDies(w) ==
    /\ runner.pc \in {"spawning", "started", "collecting", "finally"}
    /\ Alive(w)
    /\ wpc' = [wpc EXCEPT ![w] = "crashed"]
    /\ UNCHANGED <<svars, header, reg, fan, pipe, meta, direct, waiter, wire, ties, last,
                   backend, queue, nextId, producer, pprio, logs, results, now, flag, ppc,
                   pjoin, wtask, wstep, outcome, hist>>

\* _collect_logs ends: no process is alive; _loop goes to its finally block.
CollectEnd ==
    /\ runner.pc = "collecting"
    /\ \A i \in DOMAIN processes : ~Alive(processes[i])
    /\ runner' = [runner EXCEPT !.pc = "finally",
                                !.log_task = log_task_cancel(runner.log_task)]
    /\ UNCHANGED <<paging, cleaned, processes, num_steps, kv, header, reg, fan, pipe, meta, direct, waiter, wire, ties, last,
                   backend, queue, nextId, producer, pprio, logs, results, now, flag, ppc,
                   pjoin, wpc, wtask, wstep, outcome, hist>>

\* An interrupt of the controlling process. In the collector it cancels
\* _loop's task, which goes to its finally block. In start(), between
\* start() and asyncio.run, and inside shutdown() it is a KeyboardInterrupt
\* that leaves run through its except clause.
RunInterrupt ==
    /\ runner.pc \in {"spawning", "started", "collecting", "finally"}
    /\ runner' = [runner EXCEPT !.interrupted = runner.pc,
                                !.pc = IF runner.pc = "collecting" THEN "finally"
                                       ELSE "returned",
                                !.log_task = IF runner.pc = "collecting"
                                             THEN log_task_cancel(runner.log_task)
                                             ELSE runner.log_task]
    /\ UNCHANGED <<paging, cleaned, processes, num_steps, kv, header, reg, fan, pipe, meta, direct, waiter, wire, ties, last,
                   backend, queue, nextId, producer, pprio, logs, results, now, flag, ppc,
                   pjoin, wpc, wtask, wstep, outcome, hist>>

\* _process_log_stream ends on its own while the collector polls: a message
\* that LogMessage.model_validate_json rejects, or the subscription raises.
LogStreamFails ==
    /\ runner.pc = "collecting"
    /\ runner.log_task = "subscribed"
    /\ runner' = [runner EXCEPT !.log_task = "failed"]
    /\ UNCHANGED <<paging, cleaned, processes, num_steps, kv, header, reg, fan, pipe, meta, direct, waiter, wire, ties, last,
                   backend, queue, nextId, producer, pprio, logs, results, now, flag, ppc,
                   pjoin, wpc, wtask, wstep, outcome, hist>>

\* _loop's finally block: self.shutdown(), step by step.
RunShutdown ==
    /\ runner.pc = "finally"
    /\ \/ ShutdownBegin
       \/ ShutdownJoin
       \/ ShutdownTerminate
       \/ ShutdownEnd

\* shutdown has returned; the backend is closed and run returns.
RunReturn ==
    /\ runner.pc = "finally"
    /\ ppc = "stopped"
    /\ runner' = [runner EXCEPT !.pc = "returned"]
    /\ UNCHANGED <<paging, cleaned, processes, num_steps, kv, header, reg, fan, pipe, meta, direct, waiter, wire, ties, last,
                   backend, queue, nextId, producer, pprio, logs, results, now, flag, ppc,
                   pjoin, wpc, wtask, wstep, outcome, hist>>

\* ------------------------------------------------------------- envelope
\* Context classes: the class the handlers declare, and a subclass of it
\* with one more field.
Contexts ==
    {[class |-> "Ctx", message |-> m, extra |-> "-"] : m \in {"a", "b"}} \cup
    {[class |-> "SubCtx", message |-> m, extra |-> x] : m \in {"a", "b"}, x \in {"x", "y"}}

\* TaskDefinition.context_class: the annotation of the handler's context parameter.
context_class(task_name) == "Ctx"

\* isinstance(context, cls).
isinstance(context, cls) == context.class = cls \/ (context.class = "SubCtx" /\ cls = "Ctx")

\* Task.serialize_context: value.model_dump(mode="json"), a dict of the
\* context's fields that does not name its class.
serialize_context(value) == [class |-> "dict", message |-> value.message, extra |-> value.extra]

\* Task.model_dump_json: the context as dumped, the UUID as its string.
model_dump_json(task) ==
    [task_name |-> task.task_name, context |-> serialize_context(task.context),
     agent_id |-> ToString(task.agent_id)]

\* cls.model_validate(dict): an instance of cls from the fields cls has;
\* other keys are ignored. BaseModel has no fields.
model_validate(cls, data) ==
    [class |-> cls,
     message |-> IF cls \in {"Ctx", "SubCtx"} THEN data.message ELSE "-",
     extra |-> IF cls = "SubCtx" THEN data.extra ELSE "-"]

\* The UUID that a string denotes.
UUID(text) == CHOOSE id \in Ids : ToString(id) = text

\* Task.from_serialized(definition, data).
from_serialized(definition, data) ==
    [task_name |-> data.task_name,
     context |-> model_validate(context_class(definition), data.context),
     agent_id |-> UUID(data.agent_id)]

\* Task.model_validate_json(task_json) of core/queue.py's dequeue: the
\* context field is declared as BaseModel.
model_validate_json(data) ==
    [task_name |-> data.task_name,
     context |-> model_validate("BaseModel", data.context),
     agent_id |-> UUID(data.agent_id)]

\* Task(task_name=..., context=..., agent_id=...).
WireCreate ==
    /\ wire.stage = "none"
    /\ \E task_name \in {"plain", "progress"}, context \in Contexts, agent_id \in Ids :
        wire' = [wire EXCEPT !.stage = "task",
                             !.e = [task_name |-> task_name, context |-> context,
                                    agent_id |-> agent_id]]
    /\ UNCHANGED <<yvars, meta, direct, waiter, ties, last, backend, queue, nextId, producer, pprio,
                   logs, results, now, flag, ppc, pjoin, wpc, wtask, wstep, outcome, hist>>

\* enqueue: task.model_dump_json().
WireDump ==
    /\ wire.stage = "task"
    /\ wire' = [wire EXCEPT !.stage = "json", !.json = model_dump_json(wire.e)]
    /\ UNCHANGED <<yvars, meta, direct, waiter, ties, last, backend, queue, nextId, producer, pprio,
                   logs, results, now, flag, ppc, pjoin, wpc, wtask, wstep, outcome, hist>>

\* Worker._dequeue_task: Task.from_serialized with the registered definition.
WireHydrate ==
    /\ wire.stage = "json"
    /\ wire' = [wire EXCEPT !.stage = "hydrated",
                            !.task = from_serialized(wire.json.task_name, wire.json)]
    /\ UNCHANGED <<yvars, meta, direct, waiter, ties, last, backend, queue, nextId, producer, pprio,
                   logs, results, now, flag, ppc, pjoin, wpc, wtask, wstep, outcome, hist>>

\* core/queue.py dequeue: Task.model_validate_json.
WireValidate ==
    /\ wire.stage = "json"
    /\ wire' = [wire EXCEPT !.stage = "validated", !.task = model_validate_json(wire.json)]
    /\ UNCHANGED <<yvars, meta, direct, waiter, ties, last, backend, queue, nextId, producer, pprio,
                   logs, results, now, flag, ppc, pjoin, wpc, wtask, wstep, outcome, hist>>

\* ---------------------------------------------------------- specification
\* The pool of worker/pool.py at work: producers, workers running
\* Task.execute with every kind of handler, crashes, and the clock.
Next ==
    \/ Start
    \/ EnqueueCreate(MaxTasks, TaskNames, {LOW})
    \/ EnqueuePush
    \/ \E w \in Workers : CheckShutdown(w)
    \/ \E w \in Workers : Dequeue(w, FALSE)
    \/ \E w \in Workers : ExecuteStart(w)
    \/ \E w \in Workers : HandlerProgress(w)
    \/ \E w \in Workers : HandlerReturn(w, Values \cup {None})
    \/ \E w \in Workers : HandlerRaise(w, ExcTypes)
    \/ \E w \in Workers : ExecuteComplete(w)
    \/ \E w \in Workers : WorkerCrash(w)
    \/ Tick

Spec == Init /\ [][Next]_vars

\* The queue under either backend: producers of both priorities and the
\* workers that pop, with plain handlers that return.
NextQueue ==
    \/ Start
    \/ EnqueueCreate(MaxQueueTasks, {"plain"}, Priorities)
    \/ EnqueuePush
    \/ EnqueueAbort
    \/ \E w \in Workers : CheckShutdown(w)
    \/ \E w \in Workers : Dequeue(w, TRUE)
    \/ \E w \in Workers : ExecuteStart(w)
    \/ \E w \in Workers : HandlerReturn(w, Values)
    \/ \E w \in Workers : ExecuteComplete(w)
    \/ \E w \in Workers : WorkerCrash(w)

SpecQueue == InitQueue /\ [][NextQueue]_vars

\* The pool's life: start, work, shutdown.
NextPool ==
    \/ Start
    \/ ShutdownBegin
    \/ ShutdownJoin
    \/ ShutdownTerminate
    \/ ShutdownEnd
    \/ EnqueueCreate(MaxPoolTasks, {"plain"}, {LOW})
    \/ EnqueuePush
    \/ \E w \in Workers : CheckShutdown(w)
    \/ \E w \in Workers : Dequeue(w, FALSE)
    \/ \E w \in Workers : ExecuteStart(w)
    \/ \E w \in Workers : HandlerReturn(w, Values)
    \/ \E w \in Workers : HandlerRaise(w, {"ValueError"})
    \/ \E w \in Workers : ExecuteComplete(w)

SpecPool == Init /\ [][NextPool]_vars

\* The pool's life where each worker's own loop keeps stepping: the flag
\* read and the pop return (the pop within its timeout), and the rows of
\* Task.execute around the handler are written. Nothing makes a handler
\* return, and nothing hurries the pool's joins.
SpecDrain ==
    /\ Init
    /\ [][NextPool]_vars
    /\ \A w \in Workers :
        /\ WF_vars(CheckShutdown(w))
        /\ WF_vars(Dequeue(w, FALSE))
        /\ WF_vars(ExecuteStart(w))
        /\ WF_vars(ExecuteComplete(w))

\* The worker of core/worker.py: Worker.run and _process_task.
NextCore ==
    \/ Start
    \/ EnqueueCreate(MaxCoreTasks, {"plain"}, {LOW})
    \/ EnqueuePush
    \/ \E w \in Workers : CheckShutdown(w)
    \/ \E w \in Workers : Dequeue(w, FALSE)
    \/ \E w \in Workers : CoreProcessStart(w)
    \/ \E w \in Workers : CoreHandlerReturn(w, Values)
    \/ \E w \in Workers : CoreHandlerRaise(w, ExcTypes)

SpecCore == Init /\ [][NextCore]_vars

\* The pool started, shut down and started again, with a client that runs
\* cancel_pending at any moment; the clock advances between any two rows.
NextSweep ==
    \/ Start
    \/ ShutdownBegin
    \/ ShutdownJoin
    \/ ShutdownTerminate
    \/ ShutdownEnd
    \/ Restart
    \/ CancelPending(FALSE)
    \/ EnqueueCreate(MaxSweepTasks, {"plain"}, {LOW})
    \/ EnqueuePush
    \/ \E w \in Workers : CheckShutdown(w)
    \/ \E w \in Workers : Dequeue(w, FALSE)
    \/ \E w \in Workers : ExecuteStart(w)
    \/ \E w \in Workers : HandlerReturn(w, Values)
    \/ \E w \in Workers : HandlerRaise(w, {"ValueError"})
    \/ \E w \in Workers : ExecuteComplete(w)

SpecSweep == Init /\ [][NextSweep]_vars

\* The activity tracker's API called by one client after another.
NextActivity ==
    \/ ActCreate
    \/ ActUpdate
    \/ CancelPending(TRUE)
    \/ CountActive

SpecActivity == Init /\ [][NextActivity]_vars

\* Producers that enqueue registered and unregistered task names.
NextRegistry ==
    \/ Start
    \/ EnqueueCreate(MaxRegistryTasks, {"plain", "unregistered"}, {LOW})
    \/ EnqueuePush
    \/ \E w \in Workers : CheckShutdown(w)
    \/ \E w \in Workers : Dequeue(w, FALSE)
    \/ \E w \in Workers : ExecuteStart(w)
    \/ \E w \in Workers : HandlerReturn(w, Values)
    \/ \E w \in Workers : ExecuteComplete(w)

SpecRegistry == Init /\ [][NextRegistry]_vars

\* Activities of several tenants and the filtered reads.
NextFilter ==
    \/ ActCreateMetadata
    \/ FilterDetail
    \/ FilterList

SpecFilter == Init /\ [][NextFilter]_vars

\* A client waits with get_result for a task that the pool executes, or for
\* a value that a client of the store writes.
NextWait ==
    \/ Start
    \/ EnqueueCreate(MaxWaitTasks, {"plain"}, {LOW})
    \/ EnqueuePush
    \/ \E w \in Workers : CheckShutdown(w)
    \/ \E w \in Workers : Dequeue(w, FALSE)
    \/ \E w \in Workers : ExecuteStart(w)
    \/ \E w \in Workers : HandlerReturn(w, Values)
    \/ \E w \in Workers : ExecuteComplete(w)
    \/ ClientSet(1..MaxWaitTasks, Values)
    \/ GetResult(1..MaxWaitTasks)
    \/ WaitPoll
    \/ WaitTimeout
    \/ Tick

SpecWait == Init /\ [][NextWait]_vars

\* gather over tasks whose results clients of the store write in any order.
NextJoin ==
    \/ ClientSet(1..MaxJoin, {"v1", "v2"})
    \/ Gather(1..MaxJoin)
    \/ WaitPoll
    \/ WaitTimeout
    \/ Tick

SpecJoin == Init /\ [][NextJoin]_vars

\* An envelope made, dumped to JSON and hydrated again.
NextWire ==
    \/ WireCreate
    \/ WireDump
    \/ WireHydrate
    \/ WireValidate

SpecWire == Init /\ [][NextWire]_vars

\* The tracker's readers beside the clients that write rows.
NextReaders ==
    \/ ActCreate
    \/ ActUpdate
    \/ CountActive
    \/ ActList
    \/ ActDetail

SpecReaders == Init /\ [][NextReaders]_vars

\* A client of the store writes a key that a gather is polling.
FanoutClientSet(w) ==
    /\ fan[w].ret = "waiting"
    /\ ClientSet({fan[w].kids[i] : i \in DOMAIN fan[w].kids}, Values)

\* Handlers that fan out: parents are enqueued by a producer, their
\* sub-tasks by the handlers; a client of the store may write result keys.
StepFanout(w) ==
    \/ CheckShutdown(w)
    \/ Dequeue(w, FALSE)
    \/ ExecuteStart(w)
    \/ FanoutEnqueue(w)
    \/ FanoutGather(w)
    \/ FanoutPoll(w)
    \/ FanoutSleep(w)
    \/ FanoutTimeout(w)
    \/ FanoutReturn(w, Values)
    \/ HandlerReturn(w, Values)
    \/ ExecuteComplete(w)

NextFanout ==
    \/ Start
    \/ EnqueueCreate(MaxFanoutParents, {"fanout"}, {LOW})
    \/ EnqueuePush
    \/ \E w \in Workers : FanoutClientSet(w)
    \/ \E w \in Workers : StepFanout(w)

\* The event loop of every worker, the producer and the pool are scheduled
\* fairly; nothing obliges a client to write a result key.
SpecFanout ==
    /\ Init
    /\ [][NextFanout]_vars
    /\ WF_vars(Start)
    /\ WF_vars(EnqueuePush)
    /\ \A w \in Workers : WF_vars(StepFanout(w))

\* A pipeline is declared, then run inline or enqueued.
NextPipeline ==
    \/ PipeDeclare
    \/ PipeRun
    \/ PipeEnqueue
    \/ PipeStep

SpecPipeline == Init /\ [][NextPipeline]_vars

\* Handlers are registered with the pool before and after its workers are
\* spawned; the workers look up the names of popped envelopes.
NextSpawn ==
    \/ AddTask
    \/ SpawnWorkers
    \/ \E w \in Workers : Lookup(w)

SpecSpawn == Init /\ [][NextSpawn]_vars

\* Sessions that create activities under supplied agent-ids, append rows
\* and read, each in its own transaction.
NextStore ==
    \/ \E s \in Sessions : CreateFlush(s)
    \/ \E s \in Sessions : CreateCommit(s)
    \/ \E s \in Sessions : CreateFail(s)
    \/ \E s \in Sessions : AppendLog(s)
    \/ \E s \in Sessions : Detail(s)

SpecStore == Init /\ [][NextStore]_vars

\* A client reads the list of a store page by page.
NextList ==
    \/ ListBegin
    \/ ListPage

SpecList == Init /\ [][NextList]_vars

\* WorkerPool.run around idle workers, with interrupts and crashes.
NextRun ==
    \/ RunStart
    \/ RunSpawn
    \/ RunStarted
    \/ RunCollect
    \/ CollectEnd
    \/ LogStreamFails
    \/ RunInterrupt
    \/ RunShutdown
    \/ RunReturn
    \/ \E w \in Workers : CheckShutdown(w)
    \/ \E w \in Workers : Dequeue(w, FALSE)
    \/ \E w \in Workers : WorkerDies(w)

SpecRun == Init /\ [][NextRun]_vars

\* WorkerPool.run where the collector's poll, every 0.1 s, keeps running.
SpecCollect == Init /\ [][NextRun]_vars /\ WF_vars(CollectEnd)

\* The pool at work while the backend fails for some of its workers.
NextOutage ==
    \/ Start
    \/ ShutdownBegin
    \/ ShutdownJoin
    \/ ShutdownTerminate
    \/ ShutdownEnd
    \/ EnqueueCreate(MaxPoolTasks, {"plain"}, {LOW})
    \/ EnqueuePush
    \/ \E w \in Workers : CheckShutdown(w)
    \/ \E w \in Workers : Dequeue(w, FALSE)
    \/ \E w \in Workers : BackendFails(w)
    \/ \E w \in Workers : ExecuteStart(w)
    \/ \E w \in Workers : HandlerReturn(w, Values)
    \/ \E w \in Workers : ExecuteComplete(w)

SpecOutage == Init /\ [][NextOutage]_vars

\* One pipeline task of any number of steps, run by the pool.
NextProgress ==
    \/ Start
    \/ EnqueueCreate(1, {"pipeline"}, {LOW})
    \/ EnqueuePush
    \/ \E w \in Workers : CheckShutdown(w)
    \/ \E w \in Workers : Dequeue(w, FALSE)
    \/ \E w \in Workers : ExecuteStart(w)
    \/ \E w \in Workers : HandlerProgress(w)
    \/ \E w \in Workers : HandlerReturn(w, Values)
    \/ \E w \in Workers : ExecuteComplete(w)

SpecProgress == InitProgress /\ [][NextProgress]_vars

\* Clients of the SQL key-value store set and get keys while the clock
\* advances and the queue's poll cleans up.
NextKv ==
    \/ KvSet
    \/ KvGet
    \/ KvCleanup
    \/ Tick

SpecKv == Init /\ [][NextKv]_vars

\* ================================================================== claims
IsEnq(i) == hist[i].op = "enq"
IsPop(i) == hist[i].op = "pop"
H == DOMAIN hist
NoPopBetween(i, j) == \A m \in H : (i < m /\ m < j) => ~IsPop(m)
PoppedBefore(id, k) == \E m \in H : m < k /\ IsPop(m) /\ hist[m].agent_id = id
NameOf(id) == hist[CHOOSE m \in H : IsEnq(m) /\ hist[m].agent_id = id].task_name
Enqueued(id) == \E m \in H : IsEnq(m) /\ hist[m].agent_id = id
PriorityOf(id) == hist[CHOOSE m \in H : IsEnq(m) /\ hist[m].agent_id = id].priority
InQueue(id) == \E m \in DOMAIN queue : queue[m].env.agent_id = id
Holds(w) == wtask[w] # NoTask

\* C1: an envelope is returned by at most one pop, to at most one worker, and
\* once popped it is gone from the queue, whatever becomes of the worker.
C1_AtMostOnce ==
    /\ \A i, j \in H :
        (i < j /\ IsPop(i) /\ IsPop(j)) => hist[i].agent_id # hist[j].agent_id
    /\ \A i \in H : IsPop(i) =>
        /\ ~InQueue(hist[i].agent_id)
        /\ \E m \in H : m < i /\ IsEnq(m) /\ hist[m].agent_id = hist[i].agent_id
    /\ \A w1, w2 \in Workers :
        (w1 # w2 /\ Holds(w1) /\ Holds(w2)) => wtask[w1].agent_id # wtask[w2].agent_id

\* A worker crashed holding an envelope whose activity has no terminal row,
\* and the other worker popped after that envelope was popped.
C1_Witness ==
    \E w1, w2 \in Workers :
        /\ w1 # w2
        /\ wpc[w1] = "crashed" /\ Holds(w1)
        /\ LatestStatus(wtask[w1].agent_id) \in {QUEUED, RUNNING}
        /\ Holds(w2)
        /\ \E i, j \in H :
            /\ i < j
            /\ IsPop(i) /\ hist[i].agent_id = wtask[w1].agent_id
            /\ IsPop(j) /\ hist[j].agent_id = wtask[w2].agent_id

C3_FifoWithinPriority ==
    \A i, j \in H :
        (/\ i < j
         /\ IsEnq(i) /\ IsEnq(j)
         /\ hist[i].priority = hist[j].priority)
        => \A k \in H :
            (IsPop(k) /\ hist[k].agent_id = hist[j].agent_id)
            => PoppedBefore(hist[i].agent_id, k)

\* ---------------------------------------------------------- Task.execute
Finished(id) == Enqueued(id) /\ outcome[id].done
Returned(id) == Finished(id) /\ outcome[id].kind = "return" /\ outcome[id].value # None
Raised(id) == Finished(id) /\ outcome[id].kind = "raise"
StartedRows(id) ==
    {i \in 1..Len(logs[id]) : logs[id][i].message = PlainMessage(activity_message_started)}
HandlerRows(id) ==
    {i \in 1..Len(logs[id]) : logs[id][i].message.text \in {"Started step", "progress"}}
Last(id) == logs[id][Len(logs[id])]

C6_ErrorFromException ==
    \A id \in Ids : Raised(id) =>
        /\ CountStatus(id, {ERROR}) = 1
        /\ Last(id).status = ERROR
        /\ Last(id).message.error = outcome[id].exc
        /\ outcome[id].returned = None
        /\ results[id] = NoResult
        /\ LatestStatus(id) \notin {QUEUED, RUNNING}

\* What of C6 does not depend on the message.
C6_ErrorRowNoResult ==
    \A id \in Ids : Raised(id) =>
        /\ CountStatus(id, {ERROR}) = 1
        /\ Last(id).status = ERROR
        /\ outcome[id].returned = None
        /\ results[id] = NoResult
        /\ LatestStatus(id) \notin {QUEUED, RUNNING}

C9_CompleteImpliesResult ==
    \A id \in Ids : (HasActivity(id) /\ LatestStatus(id) = COMPLETE) =>
        /\ outcome[id].value # None
        /\ \/ get(results, id) = outcome[id].value
           \/ /\ results[id].value = outcome[id].value
              /\ now >= results[id].expires_at
              /\ results[id].expires_at - result_ttl \in 0..now

\* Two Complete activities, one whose result is read, one whose result has
\* expired.
C9_Witness ==
    \E a, b \in Ids :
        /\ HasActivity(a) /\ LatestStatus(a) = COMPLETE /\ get(results, a) = "v1"
        /\ HasActivity(b) /\ LatestStatus(b) = COMPLETE /\ get(results, b) = None

\* C7: a handler's exception, of whatever type, leaves an Error row and the
\* worker that ran the task alive in its loop.
C7_FailureKeepsWorker ==
    /\ \A w \in Workers : wpc[w] # "fatal"
    /\ \A id \in Ids : outcome[id].kind = "raise" =>
            /\ LatestStatus(id) = ERROR
            /\ \A w \in Workers : wtask[w].agent_id = id => Alive(w)

\* A handler's exception, of whatever type, leaves the worker of
\* worker/pool.py in its loop: Task.execute catches it.
C7_PoolWorkerSurvives ==
    [][\A w \in Workers :
        (wpc[w] = "handler" /\ wpc'[w] # "handler") =>
            wpc'[w] \in {"loop", "stored", "crashed", "terminated"}]_vars

\* C10: when shutdown has returned the flag is set, no worker is alive and
\* no activity is left Queued or Running.
C10_ShutdownCancelsPending ==
    ppc = "stopped" =>
        /\ flag
        /\ \A w \in Workers : ~Alive(w)
        /\ \A id \in Ids : HasActivity(id) => LatestStatus(id) \notin {QUEUED, RUNNING}

\* What of C10 does not depend on cancel_pending.
C10_FlagSetNoneAlive ==
    ppc = "stopped" => (flag /\ \A w \in Workers : ~Alive(w))

\* ------------------------------------------------------ activity tracker
CanceledRow == Row(CANCELED, NullPct, PlainMessage("Canceled due to shutdown"))
Swept == {id \in Ids : logs'[id] # logs[id]}
SweepStep == last'.op = "cancel_pending"
NoTies == \A id \in Ids : ties[id] = {}

\* C11: a sweep appends one Canceled row to every activity whose latest
\* status is Queued or Running, nothing to an activity whose latest status is
\* terminal, changes no existing row and returns the number it canceled.
C11_SweepCancelsActiveOnly ==
    [][SweepStep =>
        /\ \A id \in Ids :
            IF HasActivity(id) /\ LatestStatus(id) \in Active
            THEN logs'[id] = Append(logs[id], CanceledRow)
            ELSE logs'[id] = logs[id]
        /\ last'.value = Cardinality(Swept)]_vars

\* What of C11 holds whatever the timestamps: existing rows stay, a swept
\* activity gets one Canceled row and had an active row among those with its
\* greatest created_at, and the sweep returns the number of swept activities.
C11_SweepAppendsOnly ==
    [][SweepStep =>
        /\ \A id \in Ids :
            \/ logs'[id] = logs[id]
            \/ /\ logs'[id] = Append(logs[id], CanceledRow)
               /\ \E i \in LatestRows(logs, ties, id) : logs[id][i].status \in Active
        /\ \A id \in Ids :
            (HasActivity(id) /\ \A i \in LatestRows(logs, ties, id) :
                                  logs[id][i].status \in Active) => id \in Swept
        /\ last'.value = Cardinality(Swept)]_vars

\* C11 where no two rows of an activity share created_at.
C11_SweepWithoutTies ==
    [][(SweepStep /\ NoTies) =>
        \A id \in Ids :
            IF HasActivity(id) /\ LatestStatus(id) \in Active
            THEN logs'[id] = Append(logs[id], CanceledRow)
            ELSE logs'[id] = logs[id]]_vars

\* C12: of two sweeps in succession the second returns 0 and appends
\* nothing, and count_active right after a sweep is 0.
C12_SweepIdempotent ==
    [][/\ (last.op = "cancel_pending" /\ SweepStep) =>
            (last'.value = 0 /\ logs' = logs)
       /\ (last.op = "cancel_pending" /\ last'.op = "count_active") =>
            last'.value = 0]_vars

\* C12 where no two rows of an activity share created_at.
C12_IdempotentWithoutTies ==
    [][NoTies' =>
       /\ (last.op = "cancel_pending" /\ SweepStep) =>
            (last'.value = 0 /\ logs' = logs)
       /\ (last.op = "cancel_pending" /\ last'.op = "count_active") =>
            last'.value = 0]_vars

\* C13: once the latest row of an activity is terminal, no step appends a
\* row to that activity.
C13_TerminalIsFinal ==
    [][\A id \in Ids :
        (HasActivity(id) /\ LatestStatus(id) \in Terminal) => logs'[id] = logs[id]]_vars

\* The part of C13 about the sweep: a Canceled row is appended only on top
\* of a Queued or Running row.
C13_SweepOnActiveTail ==
    [][\A id \in Ids :
        (logs'[id] # logs[id] /\ logs'[id][Len(logs'[id])].status = CANCELED)
            => (HasActivity(id) /\ LatestStatus(id) \in Active)]_vars

\* The activities whose last inserted row is Queued or Running.
ActiveByInsertion == {id \in Ids : HasActivity(id) /\ LatestStatus(id) \in Active}
ReadStep == last'.op \in {"list", "detail"} /\ HasActivity(last'.value)

\* C14: the status that detail, list, count_active and the selection of
\* cancel_pending take as current is that of the row with the greatest
\* created_at, and among rows sharing it that of the one inserted last.
C14_CurrentIsLastInserted ==
    [][/\ ReadStep => last'.status = LatestStatus(last'.value)
       /\ last'.op = "count_active" => last'.value = Cardinality(ActiveByInsertion)
       /\ SweepStep => Swept = ActiveByInsertion]_vars

\* What of C14 holds whatever the timestamps: the status taken as current is
\* that of one of the rows with the greatest created_at.
C14_CurrentHasGreatestCreatedAt ==
    [][/\ ReadStep =>
            \E i \in LatestRows(logs, ties, last'.value) :
                last'.status = logs[last'.value][i].status
       /\ (last'.op = "count_active" \/ SweepStep) =>
            \E P \in get_pending_ids(logs, ties) : last'.value = Cardinality(P)]_vars

\* C14 where no two rows of an activity share created_at.
C14_CurrentWithoutTies ==
    [][NoTies =>
       /\ ReadStep => last'.status = LatestStatus(last'.value)
       /\ last'.op = "count_active" => last'.value = Cardinality(ActiveByInsertion)
       /\ SweepStep => Swept = ActiveByInsertion]_vars

\* ---------------------------------------------------------------- enqueue
\* C15: enqueue with a task name that is not registered creates no activity
\* and pushes nothing: an enqueue that has created its activity is for a
\* registered name, and so is every envelope in the queue.
C15_UnregisteredHasNoEffect ==
    /\ producer # NoTask => producer.task_name \in tasks
    /\ \A i \in DOMAIN queue : queue[i].env.task_name \in tasks

\* What the code does with an unregistered name instead: the worker that
\* pops its envelope runs nothing, so no worker ever holds such a task.
C15_UnregisteredNeverRuns ==
    \A w \in Workers : Holds(w) => wtask[w].task_name \in tasks

\* -------------------------------------------------------- tenant filter
FilterStep == last'.op \in {"filter_detail", "filter_list"} /\ last'.arg # NoMap
\* The activity's metadata lacks a key of the filter or has another value there.
Differs(id, f) == \E key \in Keys : f[key] # Absent /\ meta[id][key] # f[key]
\* The same under string comparison of the values.
DiffersAsString(id, f) ==
    \E key \in Keys :
        /\ f[key] # Absent
        /\ (meta[id][key] = Absent \/ meta[id][key].text # str(f[key]))

WaitStep == waiter' # waiter
Awaited == waiter.ids[1]
PollStep == waiter.ret = "waiting" /\ WaitStep /\ waiter'.ret # "TimeoutError"
TimeoutStep == waiter.ret = "waiting" /\ waiter'.ret = "TimeoutError"

\* C17: get_result returns the value stored under the key it polls as soon
\* as a poll finds the key set, and returns nothing else; it fails with
\* TimeoutError only once the timeout has elapsed; and no step of a wait,
\* its timeout included, changes the queue, the activity log, the results or
\* the workers, so that the task goes on as it would have.
C17_WaitReturnsOrTimesOut ==
    [][/\ WaitStep => UNCHANGED <<queue, logs, results, direct, producer, wpc, wtask, outcome,
                                  flag>>
       /\ (PollStep /\ waiter.op = "get_result" /\ direct[Awaited] # NoData) =>
            (waiter'.ret = "value" /\ waiter'.got = <<direct[Awaited].value>>)
       /\ (PollStep /\ waiter.op = "get_result" /\ waiter'.ret = "value") =>
            direct[Awaited] # NoData
       /\ TimeoutStep =>
            /\ now - waiter.start >= waiter.timeout
            /\ \E i \in DOMAIN waiter.ids : waiter.got[i] = None]_vars

\* A get_result with a timeout above 0 has polled and timed out, and the
\* task it waited for is complete with its result stored.
C17_Witness ==
    /\ waiter.op = "get_result"
    /\ waiter.ret = "TimeoutError"
    /\ waiter.timeout > 0
    /\ waiter.polled
    /\ HasActivity(Awaited)
    /\ LatestStatus(Awaited) = COMPLETE
    /\ results[Awaited] # NoResult

\* C18: gather returns a tuple whose i-th element is the value stored for
\* the i-th task, whatever the order in which the values were stored; it
\* returns a tuple only when every wait has its value, and fails as a whole
\* with TimeoutError when one of the waits ran out of time.
C18_JoinInArgumentOrder ==
    /\ (waiter.op = "gather" /\ waiter.ret = "value") =>
            \A i \in DOMAIN waiter.ids :
                /\ direct[waiter.ids[i]] # NoData
                /\ waiter.got[i] = direct[waiter.ids[i]].value
    /\ (waiter.op = "gather" /\ waiter.ret = "TimeoutError") =>
            \E i \in DOMAIN waiter.ids : waiter.got[i] = None

\* A gather over distinct tasks has returned distinct values.
C18_Witness ==
    /\ waiter.op = "gather"
    /\ waiter.ret = "value"
    /\ waiter.ids[1] # waiter.ids[2]
    /\ waiter.got[1] # waiter.got[2]

\* A gather has failed with TimeoutError while one of its waits had its value.
C18_PartialThenTimeout ==
    /\ waiter.op = "gather"
    /\ waiter.ret = "TimeoutError"
    /\ \E i \in DOMAIN waiter.ids : waiter.got[i] # None

FirstPoll == waiter.ret = "waiting" /\ ~waiter.polled /\ waiter'.polled

\* C19: a get_result with a timeout above 0 that polls while the result that
\* Task.execute stored for its agent-id has not expired returns that value.
C19_WaiterReadsWhatExecuteStored ==
    [][(FirstPoll /\ waiter.op = "get_result" /\ get(results, Awaited) # None) =>
        (waiter'.ret = "value" /\ waiter'.got = <<get(results, Awaited)>>)]_vars

\* Why not: the writer's key and the waiter's key differ for every agent-id,
\* and what the writer serializes the waiter cannot unpickle.
C19_KeysAndEncodingsDiffer ==
    /\ \A id \in Ids : state_result_key(id) # result_key(id)
    /\ \A v \in Values : pickle_loads(serialize(v)) = "UnpicklingError"

\* ------------------------------------------------------------- envelope
\* An envelope is valid when its context is an instance of the class that
\* the handler registered under its task name declares.
ValidEnvelope(e) == isinstance(e.context, context_class(e.task_name))

\* C20: the task a worker hydrates from the serialized form of a valid
\* envelope has its task name, its agent-id, and a context that is an
\* instance of the handler's declared class and equal to the envelope's.
C20_EnvelopeRoundTrip ==
    (wire.stage = "hydrated" /\ ValidEnvelope(wire.e)) =>
        /\ wire.task.task_name = wire.e.task_name
        /\ wire.task.agent_id = wire.e.agent_id
        /\ isinstance(wire.task.context, context_class(wire.e.task_name))
        /\ wire.task.context = wire.e.context

\* What of C20 holds: name and agent-id come back, the context comes back as
\* an instance of exactly the declared class, and equal to the envelope's
\* when that was of exactly the declared class.
C20_RoundTripOfDeclaredClass ==
    wire.stage = "hydrated" =>
        /\ wire.task.task_name = wire.e.task_name
        /\ wire.task.agent_id = wire.e.agent_id
        /\ wire.task.context.class = context_class(wire.e.task_name)
        /\ wire.task.context.message = wire.e.context.message
        /\ wire.e.context.class = context_class(wire.e.task_name) =>
                wire.task.context = wire.e.context

\* The task that core/queue.py's dequeue returns keeps the envelope's context.
C20_DequeueKeepsContext ==
    wire.stage = "validated" => wire.task.context = wire.e.context

\* C21: under fair scheduling every task of a fan-out (the parent whose
\* handler enqueues sub-tasks and joins them, and the sub-tasks) eventually
\* reaches Complete.
C21_FanoutCompletes ==
    \A id \in Ids : HasActivity(id) ~> (HasActivity(id) /\ LatestStatus(id) = COMPLETE)

\* C21: the sub-tasks of a parent are complete and their results stored,
\* and the parent's gather has timed out.
C21_ChildrenDoneParentTimedOut ==
    /\ \A id \in 1..(Children + 1) : HasActivity(id)
    /\ LatestStatus(1) = ERROR
    /\ \A id \in 2..(Children + 1) : LatestStatus(id) = COMPLETE /\ results[id] # NoResult

\* C22: the return of step i is the input of step i+1: every step after the
\* first is called with the elements of the carry (a tuple) or with the
\* carry (any other value), and the call is made.
C22_ReturnIsNextInput ==
    /\ pipe.pc = "CallTypeError" => pipe.i = 1
    /\ \A k \in 2..Len(pipe.calls) : pipe.calls[k].args = pipe.calls[k].carry.types

\* C22: the steps are called in ascending order of their keys, none twice;
\* a finished run has called each once and returns the last step's return.
C22_EachStepOnceInOrder ==
    /\ \A k \in 1..(Len(pipe.calls) - 1) : pipe.calls[k].order <= pipe.calls[k + 1].order
    /\ \A k, l \in DOMAIN pipe.calls : pipe.calls[k].name = pipe.calls[l].name => k = l
    /\ pipe.pc = "done" =>
        /\ {pipe.calls[k].name : k \in DOMAIN pipe.calls}
             = {pipe.steps[k].name : k \in DOMAIN pipe.steps}
        /\ pipe.result = pipe.carry
        /\ pipe.result \in handler_returns(_sorted_steps(pipe.steps)[Len(pipe.steps)])

\* C22: a run in which step "b", declared last with the lower key, ran first.
C22_DeclaredLastRanFirst ==
    /\ pipe.pc = "done"
    /\ pipe.calls[1].name = "b"

\* An adjacent pair whose declared return does not fit the next step's
\* parameters: the counts differ, or an element is neither the annotated
\* parameter's class nor a subclass of it.
Mismatch(step, next_step) ==
    /\ step.return_type # Unannotated
    /\ \/ Len(step.return_type.types) # Len(next_step.param_types)
       \/ \E k \in DOMAIN next_step.param_types :
            /\ k \in DOMAIN step.return_type.types
            /\ next_step.param_types[k] # None
            /\ next_step.param_types[k] # step.return_type.types[k]
            /\ ~(step.return_type.types[k] = "SubA" /\ next_step.param_types[k] = "A")
Mismatched ==
    /\ pipe.steps # <<>>
    /\ \E k \in 1..(Len(pipe.steps) - 1) :
         Mismatch(_sorted_steps(pipe.steps)[k], _sorted_steps(pipe.steps)[k + 1])

C24_TypeSound ==
    /\ pipe.pc = "CallTypeError" => pipe.i = 1
    /\ \A k \in 2..Len(pipe.calls) :
        /\ Len(pipe.calls[k].args) = Len(pipe.calls[k].param_types)
        /\ \A j \in DOMAIN pipe.calls[k].args :
             pipe.calls[k].param_types[j] # None =>
                 issubclass(pipe.calls[k].args[j], pipe.calls[k].param_types[j])

\* C24: where every return is annotated, the same holds.
C24_TypeSoundWhereAnnotated ==
    (\A k \in DOMAIN pipe.steps : pipe.steps[k].return_type # Unannotated) => C24_TypeSound

\* C25: every name whose handler was registered before the workers were
\* spawned is in every worker's registry, and a lookup of it by any worker
\* finds the definition.
C25_RegisteredBeforeStartResolves ==
    reg.spawned =>
        \A w \in Workers :
            /\ reg.before \subseteq reg.worker[w]
            /\ reg.found[w].task_name \in reg.before => reg.found[w].ret = "definition"

\* C25: a name whose handler was registered after the workers were spawned
\* is in no worker's registry.
C25_RegisteredAfterStartInvisible ==
    reg.spawned =>
        \A w \in Workers : reg.worker[w] \cap (reg.decorated \ reg.before) = {}

C27_DuplicateCreateFails ==
    [][\A id \in Ids :
         (header[id] = "committed" /\ last'.value = id /\ last'.op \in {"create", "flush"})
            => (last'.status = "IntegrityError" /\ header' = header /\ logs' = logs)]_vars

\* C27: a create has failed on an agent-id whose activity has more rows than the first.
C27_Witness ==
    /\ last.op = "create" /\ last.status = "IntegrityError"
    /\ Len(logs[last.value]) > 1

\* C28: an append for an agent-id without committed header raises
\* ValueError and changes neither the headers nor any row.
C28_AppendWithoutHeaderFails ==
    [][\A id \in Ids :
         (header[id] # "committed" /\ last'.value = id /\ last'.op = "append_log")
            => (last'.status = "ValueError" /\ header' = header /\ logs' = logs)]_vars

\* C28: an append has failed while another activity has rows.
C28_Witness ==
    /\ last.op = "append_log" /\ last.status = "ValueError"
    /\ \E id \in Ids : Len(logs[id]) > 1

\* C29: the concatenation of the pages holds every activity exactly once,
\* in the list order, and total is the number of activities.
C29_PagesHoldEachOnceInOrder ==
    paging.pc = "done" =>
        /\ Len(paging.items) = Len(paging.activities)
        /\ \A a \in DOMAIN paging.activities : \E i \in DOMAIN paging.items : paging.items[i] = a
        /\ InListOrder(paging.items, paging.activities)
        /\ paging.total = Len(paging.activities)

\* No two activities have the same sort keys.
DistinctKeys ==
    \A a, b \in DOMAIN paging.activities :
        a # b => \/ SortsBefore(paging.activities[a], paging.activities[b])
                 \/ SortsBefore(paging.activities[b], paging.activities[a])

\* C29: where no two activities have the same status group and started_at,
\* the pages hold every activity exactly once, in the list order.
C29_EachOnceWithDistinctKeys ==
    DistinctKeys => C29_PagesHoldEachOnceInOrder

\* C30: when run has returned, shutdown has been called and has finished,
\* and no worker that run spawned is alive.
C30_RunShutsDownBeforeReturn ==
    runner.pc = "returned" =>
        /\ ppc = "stopped"
        /\ \A w \in Workers : ~Alive(w)

\* C30: the same for runs that no interrupt reached outside the collector.
C30_ShutsDownAfterCollector ==
    runner.interrupted \in {"-", "collecting"} => C30_RunShutsDownBeforeReturn

\* C30: run has returned after an interrupt in the collector.
C30_InterruptedInCollector ==
    /\ runner.pc = "returned"
    /\ runner.interrupted = "collecting"
    /\ \E w \in Workers : wpc[w] = "terminated"

\* ------------------------------------------------------------ draining
Gone(w) == wpc[w] \in {"exited", "terminated"}

\* C31: once the flag is set, a worker at the top of its loop leaves the
\* loop at its next step and exits; a worker blocked in its pop comes back
\* within that one pop and then exits, unless the pop handed it a task; a
\* worker exits only with no task in hand, so no activity is left Running
\* by a worker that exited.
C31_FlagDrainsWorkers ==
    /\ [][\A w \in Workers :
            (flag /\ wpc[w] = "loop" /\ wpc'[w] # "loop") => Gone(w)']_vars
    /\ [](\A w \in Workers : wpc[w] = "exited" => wtask[w] = NoTask)
    /\ [](\A id \in Ids :
            (HasActivity(id) /\ LatestStatus(id) = RUNNING) =>
                \E w \in Workers : wtask[w].agent_id = id /\ wpc[w] # "exited")
    /\ \A w \in Workers : (flag /\ wpc[w] = "loop") ~> Gone(w)
    /\ \A w \in Workers : (flag /\ wpc[w] = "dequeue") ~> (Gone(w) \/ Holds(w))

\* C31: the flag is set, one worker has exited on reading it and another
\* is still running the task it held.
C31_Witness ==
    /\ flag
    /\ ppc = "joining"
    /\ \E w, v \in Workers :
        /\ wpc[w] = "exited"
        /\ wpc[v] \in {"handler", "stored"}
        /\ Holds(v)

\* -------------------------------------------------- envelope and activity
FirstIsQueued(id) == HasActivity(id) /\ logs[id][1].status = QUEUED

\* C32: every envelope in the queue, in a producer's hands or in a worker's
\* hands names an activity whose first row is Queued, and every Running row
\* of an activity comes after a first row that is Queued.
C32_EnvelopeHasQueuedActivity ==
    /\ \A i \in DOMAIN queue : FirstIsQueued(queue[i].env.agent_id)
    /\ producer # NoTask => FirstIsQueued(producer.agent_id)
    /\ \A w \in Workers : Holds(w) => FirstIsQueued(wtask[w].agent_id)
    /\ \A id \in Ids : \A i \in DOMAIN logs[id] :
        logs[id][i].status = RUNNING => (i > 1 /\ logs[id][1].status = QUEUED)

\* C32: an envelope waits in the queue, another activity has its Running
\* row, and a third activity exists whose envelope was never pushed.
C32_Witness ==
    /\ queue # <<>>
    /\ \E id \in Ids : HasActivity(id) /\ LatestStatus(id) = RUNNING
    /\ \E id \in Ids :
        /\ HasActivity(id)
        /\ ~Enqueued(id)
        /\ producer.agent_id # id

\* ------------------------------------------------------------ hydration
NextPopped == queue[brpop_index(backend, queue)].env
\* Worker w's pop returns an envelope whose task name is not registered.
PopsUnhydratable(w) ==
    /\ wpc[w] = "dequeue"
    /\ wpc'[w] # "dequeue"
    /\ queue # <<>>
    /\ NextPopped.task_name \notin tasks

\* C33: a worker that pops an envelope it cannot hydrate appends an Error
\* row to the envelope's activity and is back at the top of its loop.
C33_UnhydratableDroppedWithError ==
    [][\A w \in Workers :
        PopsUnhydratable(w) =>
            /\ wpc'[w] = "loop"
            /\ logs'[NextPopped.agent_id][Len(logs'[NextPopped.agent_id])].status = ERROR]_vars

\* What the code does with such an envelope: the envelope is gone, the
\* worker has left its loop and no row was written.
C33_UnhydratableEndsWorker ==
    [][\A w \in Workers :
        PopsUnhydratable(w) =>
            /\ wpc'[w] = "exited"
            /\ Len(queue') = Len(queue) - 1
            /\ logs' = logs]_vars

\* --------------------------------------------------------------- outage
\* Worker w's flag read or pop raises in this step.
FailsNow(w) == ~flag /\ wpc[w] \in {"loop", "dequeue"} /\ wpc'[w] = "exited"

\* C34: a worker whose loop has ended, by the flag or by an exception, has
\* run its cleanup exactly once, and a worker that has not left its loop
\* has not run it; the step in which one worker's backend call fails
\* changes nothing of another worker.
C34_CleanupOnceOthersUnaffected ==
    /\ [](\A w \in Workers :
            /\ wpc[w] = "exited" => cleaned[w] = 1
            /\ (Alive(w) \/ wpc[w] = "unborn") => cleaned[w] = 0)
    /\ [][\A w \in Workers : FailsNow(w) =>
            \A v \in Workers \ {w} :
                /\ wpc'[v] = wpc[v]
                /\ wtask'[v] = wtask[v]
                /\ cleaned'[v] = cleaned[v]]_vars

\* C34: one worker has left its loop on an exception while the flag is
\* clear, and the other has since completed a task.
C34_Witness ==
    /\ ~flag
    /\ \E w, v \in Workers :
        /\ wpc[w] = "exited"
        /\ cleaned[w] = 1
        /\ Alive(v)
        /\ \E id \in Ids : HasActivity(id) /\ LatestStatus(id) = COMPLETE

\* ---------------------------------------------------------------- restart
N == Len(WorkerOrder)

\* C35: once start() has returned the pool holds exactly N handles, never
\* more at any moment, and a worker leaves its loop on reading the flag only
\* while a shutdown called after its start is in progress.
C35_StartClearsThenSpawnsN ==
    /\ [](Len(processes) <= N)
    /\ [](runner.pc \in {"started", "collecting"} => Len(processes) = N)
    /\ [][\A w \in Workers :
            (wpc[w] = "loop" /\ wpc'[w] = "exited") => ppc = "joining"]_vars

\* C35: after a shutdown that set the flag, start() has run again: the flag
\* is clear, N handles are held and a new worker has read the flag and gone
\* on to its pop.
C35_Witness ==
    /\ runner.runs = 2
    /\ runner.pc = "collecting"
    /\ ~flag
    /\ Len(processes) = N
    /\ \E w \in Workers : wpc[w] = "dequeue"

\* -------------------------------------------------------------- progress
\* The rows of an activity that a pipeline wrote before its steps.
IsStarted(row) == row.message = PlainMessage("Started step")
StartedAt(id) == {p \in DOMAIN logs[id] : IsStarted(logs[id][p])}

\* C36: the row before step s (0-based; the activity's row s + 3, behind
\* Queued and Running) carries floor(s * 100 / N), which lies in 0..99; the
\* percentages do not decrease from the Running row to the Complete row; and
\* a completed pipeline has written one such row for each of its N steps.
C36_StartedRowsCarryFloor ==
    \A id \in Ids :
        /\ \A p \in StartedAt(id) :
            /\ logs[id][p].percentage = ((p - 3) * 100) \div num_steps
            /\ logs[id][p].percentage \in 0..99
        /\ \A p \in DOMAIN logs[id] :
            (p >= 2 /\ p < Len(logs[id])) => logs[id][p].percentage <= logs[id][p + 1].percentage
        /\ (HasActivity(id) /\ LatestStatus(id) = COMPLETE) =>
            /\ Cardinality(StartedAt(id)) = num_steps
            /\ logs[id][Len(logs[id])].percentage = 100

\* What of C36 holds for the percentage the code computes: the rows lie in
\* 0..99, never decrease and are one per step, and each is the floor or one
\* less.
C36_StartedRowsNonDecreasing ==
    \A id \in Ids :
        /\ \A p \in StartedAt(id) :
            /\ logs[id][p].percentage \in 0..99
            /\ ((p - 3) * 100) \div num_steps - logs[id][p].percentage \in {0, 1}
        /\ \A p \in DOMAIN logs[id] :
            (p >= 2 /\ p < Len(logs[id])) => logs[id][p].percentage <= logs[id][p + 1].percentage
        /\ (HasActivity(id) /\ LatestStatus(id) = COMPLETE) =>
            /\ Cardinality(StartedAt(id)) = num_steps
            /\ logs[id][Len(logs[id])].percentage = 100


\* C37: the log collector leaves its poll loop on its own only when no
\* process handle reports alive, and then it does leave; the task of the
\* log stream is subscribed only while the collector polls, whichever way
\* the collector ends.
NoneAlive == \A i \in DOMAIN processes : ~Alive(processes[i])

C37_CollectorEndsWithWorkers ==
    /\ [][(runner.pc = "collecting" /\ runner'.pc # "collecting")
            => /\ NoneAlive \/ runner'.interrupted = "collecting"
               /\ runner'.log_task # "subscribed"]_vars
    /\ [](runner.log_task = "subscribed" => runner.pc = "collecting")
    /\ ((runner.pc = "collecting" /\ NoneAlive) ~> runner.pc # "collecting")

C37_Witness ==
    /\ runner.pc = "finally"
    /\ runner.interrupted = "-"
    /\ runner.log_task = "cancelled"
    /\ Len(processes) = Len(WorkerOrder)
    /\ NoneAlive

\* The queue of backend b and the envelopes it has returned after the
\* pushes and pops of a history h, replayed from the empty queue.
RECURSIVE Replay(_, _)
Replay(b, h) ==
    IF h = <<>> THEN [q |-> <<>>, out |-> <<>>]
    ELSE LET r == Replay(b, SubSeq(h, 1, Len(h) - 1))
             e == h[Len(h)]
         IN  IF e.op = "enq"
             THEN [r EXCEPT !.q = redis_push(e.priority, b, r.q,
                                             [agent_id |-> e.agent_id,
                                              task_name |-> e.task_name])]
             ELSE IF r.q = <<>> THEN r
             ELSE [q |-> brpop_rest(b, r.q),
                   out |-> Append(r.out, r.q[brpop_index(b, r.q)].env.agent_id)]

\* C38: whatever pushes and pops have happened, the table of the SQL
\* backend and the list return the same envelopes in the same order.
C38_BackendsReturnSameOrder ==
    Replay("sql", hist).out = Replay("list", hist).out

\* The backend in use returned what its replay returns, and the two
\* backends always hold the same number of envelopes.
C38_ReplayIsFaithful ==
    /\ Replay(backend, hist).out =
         [i \in 1..Cardinality({k \in H : IsPop(k)}) |->
            hist[CHOOSE k \in H : IsPop(k) /\ Cardinality({l \in 1..k : IsPop(l)}) = i].agent_id]
    /\ Len(Replay("sql", hist).q) = Len(Replay("list", hist).q)

\* C39: once the flag is set, a worker that is not inside the pop never
\* pops again, so each worker pops at most the one envelope of the pop it
\* was in; a worker that reads the flag as set leaves its loop without a
\* pop; and while the flag is set and no worker is inside the pop, every
\* envelope in the queue stays there.
Kept(q, r) ==
    \E f \in [DOMAIN q -> DOMAIN r] :
        /\ \A i \in DOMAIN q : r[f[i]] = q[i]
        /\ \A i, j \in DOMAIN q : i # j => f[i] # f[j]

C39_AtMostOnePopAfterFlag ==
    /\ \A w \in Workers : []((flag /\ wpc[w] # "dequeue") => [](wpc[w] # "dequeue"))
    /\ [][\A w \in Workers :
            (flag /\ wpc[w] = "loop" /\ wpc'[w] # "loop") => ~Alive(w)']_vars
    /\ [][(flag /\ \A w \in Workers : wpc[w] # "dequeue") => Kept(queue, queue')]_vars

\* The flag is set, every worker has left its loop by reading it, a task
\* was executed and an envelope is still in the queue.
C39_Witness ==
    /\ flag
    /\ \A w \in Workers : wpc[w] = "exited"
    /\ queue # <<>>
    /\ \E id \in Ids : outcome[id].done


\* C40: a key whose last set had a TTL that has elapsed is not returned by
\* get, whether or not the cleanup has deleted its row; the cleanup deletes
\* only rows whose TTL has elapsed; and a key whose last set had no TTL, or
\* one that has not elapsed, is returned with the value of that last set.
ElapsedAt(key, t) ==
    /\ kv.set_by[key].value # None
    /\ kv.set_by[key].ttl_seconds # NoTtl
    /\ t >= kv.set_by[key].at + kv.set_by[key].ttl_seconds

InForceAt(key, t) == kv.set_by[key].value # None /\ ~ElapsedAt(key, t)

C40_TtlAndLastWriter ==
    /\ [](\A key \in KvKeys :
            /\ ElapsedAt(key, now) => get(results, key) = None
            /\ InForceAt(key, now) => get(results, key) = kv.set_by[key].value)
    /\ [](kv.call.op = "get" =>
            kv.call.ret = IF InForceAt(kv.call.key, kv.call.at)
                          THEN kv.set_by[kv.call.key].value ELSE None)
    /\ [][kv'.call.op = "cleanup" =>
            \A key \in KvKeys :
                results'[key] # results[key]
                => ElapsedAt(key, now) /\ results'[key] = NoResult]_vars

\* The cleanup has deleted the row of a key whose TTL had elapsed and has
\* left the row of a key that was set twice, last without a TTL.
C40_Witness ==
    /\ kv.call.op = "cleanup"
    /\ \E key \in KvKeys : ElapsedAt(key, now) /\ results[key] = NoResult
    /\ \E key \in KvKeys :
        /\ kv.set_by[key].ttl_seconds = NoTtl
        /\ kv.set_by[key].at > 0
        /\ get(results, key) = kv.set_by[key].value
====
